---- MODULE Spec2Model ----
(***************************************************************************)
(* Compliance rule evaluation and risk scoring of LegalEagle-backend:      *)
(* RateLimiter (RateGate), fallbackRuleExtraction (FallbackMatcher),       *)
(* DetermineApplicableRules (RuleClassifier) and CalculateRiskScore        *)
(* (RiskScorer), CheckRuleCompliance and DetermineApplicableRulesBatch,     *)
(* modelled from src/service/compliance_service.go; CreateActionItems,     *)
(* UpdateActionItem, AssignAndNotifyActionItem and                         *)
(* GetPendingActionItemsWithTitles (ActionItemLifecycle), modelled from    *)
(* src/unnamed/part_005; the compliance analysis of                        *)
(* UploadAndProcessDocument, modelled from src/unnamed/part_004.           *)
(*                                                                         *)
(* Time is counted in minutes (the unit of both limiter windows); a text   *)
(* is a sequence of one-character strings.                                 *)
(***************************************************************************)
EXTENDS Integers, Sequences, FiniteSets, TLC

\* ------------------------------------------------------------------------
\* Bounds of the model
\* ------------------------------------------------------------------------
\* largest limit given to NewRateLimiter in the gate specification
MaxLimit == 2
\* number of goroutines calling Allow
NumCallers == 2
\* number of Allow calls recorded in one behaviour of the gate specification
MaxCalls == 3
\* the clock stops after this many minutes
MaxTime == 2

\* ------------------------------------------------------------------------
\* Program constants
\* ------------------------------------------------------------------------
GroqLimit == 50
RuleLimit == 100
WindowMinutes == 1
maxRetries == 3

Limiters == {"groqRateLimiter", "ruleRateLimiter"}

Keys == {"groq_api_call", "batch_rule_determination", "rule_addition",
         "rule_retrieval", "rule_retrieval_by_names",
         "risk_score_calculation", "rule_compliance_check"}

\* the limiter and key of the Allow calls of the gate specification
GateTargets == {<<"groqRateLimiter", "groq_api_call">>,
                <<"groqRateLimiter", "batch_rule_determination">>,
                <<"ruleRateLimiter", "groq_api_call">>}

Callers == 1..NumCallers

Min(a, b) == IF a < b THEN a ELSE b

VARIABLES
  now,      \* time.Now(), in minutes
  rl,       \* the RateLimiter instances: requestCount, limit, window, lastReset, mu
  pc,       \* position of each goroutine inside Allow
  frame,    \* receiver, key and locals of each goroutine's Allow call
  hist,     \* the Allow calls that returned, in order of return
  twin,     \* one RateLimiter fed two call sequences that agree on one key
  fb,       \* the last call of fallbackRuleExtraction: arguments and result
  groqAPIKey,  \* os.Getenv("VITE_GROQ_API_KEY")
  rulesTable,  \* the compliance_rules table, in the order Find returns it
  cls,      \* the last call of DetermineApplicableRules: inputs and result
  score,    \* the last call of CalculateRiskScore: inputs and result
  chk,      \* the last call of CheckRuleCompliance: inputs and result
  batch,    \* the last call of DetermineApplicableRulesBatch: inputs and result
  documentsTable,       \* the documents table, by id
  actionItems,          \* the action_items table, by id
  documentRuleResults,  \* the document_rule_results table, by id
  created,  \* the last call of CreateActionItems: inputs and result
  upd,      \* the goroutine serving UpdateActionItem: position, locals, result
  asg,      \* the goroutine serving AssignAndNotifyActionItem: the same
  listing,  \* the last call of GetPendingActionItemsWithTitles: result
  upload    \* the last call of UploadAndProcessDocument: inputs and result

callerVars == <<pc, frame, hist, twin>>
storeVars == <<documentsTable, actionItems, documentRuleResults>>
actVars == <<storeVars, created, upd, asg, listing, upload>>
svcVars == <<chk, batch, actVars>>
appVars == <<fb, groqAPIKey, rulesTable, cls, score, svcVars>>
vars == <<now, rl, callerVars, appVars>>

\* ------------------------------------------------------------------------
\* RateLimiter
\* ------------------------------------------------------------------------
NewRateLimiter(limit, window, t) ==
  [requestCount |-> [k \in Keys |-> 0],
   limit |-> limit, window |-> window, lastReset |-> t, mu |-> 0]

\* time.Since(rl.lastReset) > rl.window
WindowPassed(r, t) == t - r.lastReset > r.window

\* the reset of the counters when the window has passed
ResetIfPassed(r, t) ==
  IF WindowPassed(r, t)
  THEN [r EXCEPT !.requestCount = [k \in Keys |-> 0], !.lastReset = t]
  ELSE r

\* groqRateLimiter and ruleRateLimiter as the package builds them
GlobalLimiters ==
  [l \in Limiters |->
     NewRateLimiter(IF l = "groqRateLimiter" THEN GroqLimit ELSE RuleLimit,
                    WindowMinutes, 0)]

WithinLimitStrict(r, key) == r.requestCount[key] < r.limit

\* return rl.requestCount[key] <= rl.limit
WithinLimit(r, key) == r.requestCount[key] <= r.limit

\* Allow as one step, as its callers see it under the mutex
Allow(r, key, t) ==
  LET r1 == ResetIfPassed(r, t)
      r2 == [r1 EXCEPT !.requestCount[key] = @ + 1]
  IN  [rl |-> r2, ok |-> WithinLimit(r2, key)]

MutexNeverHeld(l) == FALSE

\* rl.mu is locked
MutexHeld(l) == rl[l].mu # 0

NoFrame == [rl |-> "", key |-> "", tmp |-> 0, late |-> FALSE, overlap |-> FALSE]

InFlight == {t \in Callers : pc[t] # "idle"}

\* no limiter was built for the comparison of call sequences
NoTwin == [built |-> FALSE]

\* no goroutine is inside Allow
NoCallers ==
  /\ pc = [t \in Callers |-> "idle"]
  /\ frame = [t \in Callers |-> NoFrame]
  /\ hist = <<>>
  /\ twin = NoTwin

NoFallbackCall == [text |-> <<>>, ruleNames |-> <<>>, out |-> <<>>, done |-> FALSE]

NoClassifyCall == [done |-> FALSE]

NoScoreCall == [done |-> FALSE]

NoCheckCall == [done |-> FALSE]

NoBatchCall == [done |-> FALSE]

NoCreateCall == [done |-> FALSE]

\* a goroutine that serves no request
NoRequest == [pc |-> "idle"]

\* no upload was made
NoUpload == [done |-> FALSE, calls |-> 0]

\* the tables are empty and no request is being served
ActIdle ==
  /\ documentsTable = <<>>
  /\ actionItems = <<>>
  /\ documentRuleResults = <<>>
  /\ created = NoCreateCall
  /\ upd = NoRequest
  /\ asg = NoRequest
  /\ listing = NoCreateCall
  /\ upload = NoUpload

\* no call of the other operations of the service was made
SvcIdle ==
  /\ chk = NoCheckCall
  /\ batch = NoBatchCall
  /\ ActIdle

\* a goroutine calls rl.Allow(key)
AllowCall(t, l, k) ==
  /\ pc[t] = "idle"
  /\ Len(hist) + Cardinality(InFlight) < MaxCalls
  /\ pc' = [pc EXCEPT ![t] = "lock"]
  /\ frame' = [frame EXCEPT ![t] = [NoFrame EXCEPT !.rl = l, !.key = k,
                                      !.overlap = InFlight # {}]]
  /\ UNCHANGED <<now, rl, hist, twin, appVars>>

\* rl.mu.Lock()
AllowLock(t) ==
  /\ pc[t] = "lock"
  /\ ~MutexHeld(frame[t].rl)
  /\ rl' = [rl EXCEPT ![frame[t].rl].mu = t]
  /\ pc' = [pc EXCEPT ![t] = "reset"]
  /\ UNCHANGED <<now, frame, hist, twin, appVars>>

\* if time.Since(rl.lastReset) > rl.window { ... }
AllowReset(t) ==
  /\ pc[t] = "reset"
  /\ rl' = [rl EXCEPT ![frame[t].rl] = ResetIfPassed(@, now)]
  /\ frame' = [frame EXCEPT ![t].late = WindowPassed(rl[frame[t].rl], now)]
  /\ pc' = [pc EXCEPT ![t] = "load"]
  /\ UNCHANGED <<now, hist, twin, appVars>>

\* rl.requestCount[key]++ : the read
AllowLoad(t) ==
  /\ pc[t] = "load"
  /\ frame' = [frame EXCEPT ![t].tmp = rl[frame[t].rl].requestCount[frame[t].key]]
  /\ pc' = [pc EXCEPT ![t] = "store"]
  /\ UNCHANGED <<now, rl, hist, twin, appVars>>

\* rl.requestCount[key]++ : the write
AllowStore(t) ==
  /\ pc[t] = "store"
  /\ rl' = [rl EXCEPT ![frame[t].rl].requestCount[frame[t].key] = frame[t].tmp + 1]
  /\ pc' = [pc EXCEPT ![t] = "return"]
  /\ UNCHANGED <<now, frame, hist, twin, appVars>>

\* return rl.requestCount[key] <= rl.limit, then the deferred rl.mu.Unlock()
AllowReturn(t) ==
  /\ pc[t] = "return"
  /\ hist' = Append(hist, [rl |-> frame[t].rl, key |-> frame[t].key,
                           win |-> rl[frame[t].rl].lastReset,
                           late |-> frame[t].late,
                           overlap |-> frame[t].overlap,
                           ret |-> WithinLimit(rl[frame[t].rl], frame[t].key)])
  /\ rl' = [rl EXCEPT ![frame[t].rl].mu = 0]
  /\ pc' = [pc EXCEPT ![t] = "idle"]
  /\ frame' = [frame EXCEPT ![t] = NoFrame]
  /\ UNCHANGED <<now, twin, appVars>>

\* a minute passes
Tick ==
  /\ now < MaxTime
  /\ now' = now + 1
  /\ UNCHANGED <<rl, pc, frame, hist, twin, appVars>>

\* two limiters built by NewRateLimiter(limit, window) at time 0
GateInit ==
  /\ now = 0
  /\ \E lim \in 1..MaxLimit :
       rl = [l \in Limiters |-> NewRateLimiter(lim, WindowMinutes, 0)]
  /\ NoCallers
  /\ fb = NoFallbackCall
  /\ groqAPIKey = ""
  /\ rulesTable = <<>>
  /\ cls = NoClassifyCall
  /\ score = NoScoreCall
  /\ SvcIdle

GateNext ==
  \/ \E t \in Callers, g \in GateTargets : AllowCall(t, g[1], g[2])
  \/ \E t \in Callers : AllowLock(t)
  \/ \E t \in Callers : AllowReset(t)
  \/ \E t \in Callers : AllowLoad(t)
  \/ \E t \in Callers : AllowStore(t)
  \/ \E t \in Callers : AllowReturn(t)
  \/ Tick

SpecGate == GateInit /\ [][GateNext]_vars

\* the calls of hist[1..i] made on the limiter, key and window of call i
SameWindow(i) ==
  {j \in 1..i : /\ hist[j].rl = hist[i].rl
                /\ hist[j].key = hist[i].key
                /\ hist[j].win = hist[i].win}

\* C5: among the Allow calls with one key inside one window of a RateLimiter
\* with limit L >= 1, the first L return true and every later one (so the
\* (L+1)-th) returns false; a call that finds the window elapsed returns true
\* whatever the count was.
C5_FixedWindowLimit ==
  \A i \in 1..Len(hist) :
    /\ hist[i].ret <=> (Cardinality(SameWindow(i)) <= rl[hist[i].rl].limit)
    /\ hist[i].late => hist[i].ret

\* a key was refused on its (L+1)-th call and admitted again after the window
C5_Witness ==
  \E i, j \in 1..Len(hist) :
    /\ i < j
    /\ hist[i].rl = hist[j].rl /\ hist[i].key = hist[j].key
    /\ ~hist[i].ret
    /\ Cardinality(SameWindow(i)) = rl[hist[i].rl].limit + 1
    /\ hist[j].late /\ hist[j].ret

\* the returned calls of the current window of limiter l with key k
CurrentCalls(l, k) ==
  {i \in 1..Len(hist) : /\ hist[i].rl = l
                        /\ hist[i].key = k
                        /\ hist[i].win = rl[l].lastReset}

\* C6: whenever no Allow call is in progress, for each limiter and key the
\* stored count equals the number N of calls made in the current window (no
\* lost update) and exactly min(N, L) of these calls returned true, for every
\* interleaving of the callers.
C6_AtomicIncrementAndCompare ==
  InFlight = {} =>
    \A g \in GateTargets :
      LET l == g[1]
          k == g[2]
          calls == CurrentCalls(l, k)
      IN  /\ rl[l].requestCount[k] = Cardinality(calls)
          /\ Cardinality({i \in calls : hist[i].ret}) =
               Min(Cardinality(calls), rl[l].limit)

\* two overlapping calls with one key in one window, more calls than the limit
C6_Witness ==
  /\ InFlight = {}
  /\ \E g \in GateTargets :
       /\ Cardinality(CurrentCalls(g[1], g[2])) > rl[g[1]].limit
       /\ \E i \in CurrentCalls(g[1], g[2]) : hist[i].overlap

\* ------------------------------------------------------------------------
\* fallbackRuleExtraction
\* ------------------------------------------------------------------------
\* longest text of the enumerated inputs of the fallback specification
MaxTextLen == 3

UpperCase == <<"A", "B", "C", "D", "E", "F", "G", "H", "I", "J", "K", "L", "M", "N", "O", "P", "Q", "R", "S", "T", "U", "V", "W", "X", "Y", "Z">>

LowerCase == <<"a", "b", "c", "d", "e", "f", "g", "h", "i", "j", "k", "l", "m", "n", "o", "p", "q", "r", "s", "t", "u", "v", "w", "x", "y", "z">>

Digits == {"0", "1", "2", "3", "4", "5", "6", "7", "8", "9"}

Whitespace == {" "}

Range(f) == {f[i] : i \in DOMAIN f}

\* strings.ToLower, one character
LowerChar(c) ==
  IF \E i \in 1..Len(UpperCase) : UpperCase[i] = c
  THEN LowerCase[CHOOSE i \in 1..Len(UpperCase) : UpperCase[i] = c]
  ELSE c

ToLower(text) == [i \in 1..Len(text) |-> LowerChar(text[i])]

\* strings.ReplaceAll for a one-character old and new
ReplaceAll(text, old, new) ==
  [i \in 1..Len(text) |-> IF text[i] = old THEN new ELSE text[i]]

\* the characters the pattern [^a-z0-9\s] does not match
KeptChar(c) == c \in Range(LowerCase) \cup Digits \cup Whitespace

\* regexp.MustCompile(`[^a-z0-9\s]`).ReplaceAllString(text, "")
StripOthers(text) == SelectSeq(text, KeptChar)

NormalizeNoLower(ocrText) ==
  StripOthers(ReplaceAll(ReplaceAll(ocrText, "-", " "), "_", " "))

\* the normalisation of the text at the head of fallbackRuleExtraction
Normalize(ocrText) ==
  StripOthers(ReplaceAll(ReplaceAll(ToLower(ocrText), "-", " "), "_", " "))

\* strings.Contains
Contains(text, term) ==
  \E i \in 1..(Len(text) - Len(term) + 1) :
    SubSeq(text, i, i + Len(term) - 1) = term

ruleMatchers ==
  "Confidentiality Marking" :> <<
       <<"c", "o", "n", "f", "i", "d", "e", "n", "t", "i", "a", "l">>,
       <<"p", "r", "i", "v", "a", "t", "e">>,
       <<"r", "e", "s", "t", "r", "i", "c", "t", "e", "d">>,
       <<"s", "e", "c", "r", "e", "t">>,
       <<"s", "e", "n", "s", "i", "t", "i", "v", "e">>>>
  @@ "NDA Check" :> <<
       <<"n", "d", "a">>,
       <<"n", "o", "n", "-", "d", "i", "s", "c", "l", "o", "s", "u", "r", "e">>,
       <<"c", "o", "n", "f", "i", "d", "e", "n", "t", "i", "a", "l">>,
       <<"a", "g", "r", "e", "e", "m", "e", "n", "t">>,
       <<"s", "e", "c", "r", "e", "t">>>>
  @@ "Signature Requirement" :> <<
       <<"s", "i", "g", "n">>,
       <<"s", "i", "g", "n", "a", "t", "u", "r", "e">>,
       <<"d", "a", "t", "e">>,
       <<"s", "i", "g", "n", "e", "d">>,
       <<"e", "x", "e", "c", "u", "t", "e">>,
       <<"a", "p", "p", "r", "o", "v", "a", "l">>>>
  @@ "Data Protection Clause" :> <<
       <<"d", "a", "t", "a">>,
       <<"p", "r", "i", "v", "a", "c", "y">>,
       <<"p", "r", "o", "t", "e", "c", "t", "i", "o", "n">>,
       <<"p", "e", "r", "s", "o", "n", "a", "l">>,
       <<"i", "n", "f", "o", "r", "m", "a", "t", "i", "o", "n">>,
       <<"s", "e", "c", "u", "r", "e">>>>
  @@ "Liability Clause Requirement" :> <<
       <<"l", "i", "a", "b", "i", "l", "i", "t", "y">>,
       <<"r", "e", "s", "p", "o", "n", "s", "i", "b", "i", "l", "i", "t", "y">>,
       <<"l", "i", "m", "i", "t">>,
       <<"c", "l", "a", "u", "s", "e">>,
       <<"l", "e", "g", "a", "l">>,
       <<"r", "i", "s", "k">>>>
  @@ "Payment Terms Specification" :> <<
       <<"p", "a", "y", "m", "e", "n", "t">>,
       <<"d", "u", "e">>,
       <<"t", "e", "r", "m", "s">>,
       <<"m", "o", "n", "e", "y">>,
       <<"c", "o", "s", "t">>,
       <<"i", "n", "v", "o", "i", "c", "e">>,
       <<"c", "h", "a", "r", "g", "e">>>>

BuiltinRules == DOMAIN ruleMatchers

\* matchCount after the inner loop over the first n terms
RECURSIVE MatchCount(_, _, _)
MatchCount(text, terms, n) ==
  IF n = 0 THEN 0
  ELSE MatchCount(text, terms, n - 1) +
       (IF Contains(text, terms[n]) THEN 1 ELSE 0)

MatchedAllTerms(text, terms) == MatchCount(text, terms, Len(terms)) = Len(terms)

\* if matchCount > 0
Matched(text, terms) == MatchCount(text, terms, Len(terms)) > 0

\* the rules appended to violated
fallbackViolated(ocrText) ==
  IF ocrText = <<>> THEN {}
  ELSE {r \in BuiltinRules : Matched(Normalize(ocrText), ruleMatchers[r])}

\* the sequences that list the elements of S once each
Orderings(S) ==
  {s \in [1..Cardinality(S) -> S] : \A i, j \in DOMAIN s : i # j => s[i] # s[j]}

\* the slices fallbackRuleExtraction can return: Go ranges over the map
\* ruleMatchers in an unspecified order
fallbackRuleExtraction(ocrText, ruleNames) == Orderings(fallbackViolated(ocrText))

FbAlphabet == {"d", "u", "e", "D", "n", "a", "-", ".", "_", " "}

RECURSIVE TextsUpTo(_)
TextsUpTo(n) ==
  IF n = 0 THEN {<<>>}
  ELSE LET shorter == TextsUpTo(n - 1)
       IN  shorter \cup {Append(t, c) : t \in {u \in shorter : Len(u) = n - 1},
                                        c \in FbAlphabet}

SampleTexts ==
  {<<"N", "o", "n", "-", "D", "i", "s", "c", "l", "o", "s", "u", "r", "e", " ", "A", "g", "r", "e", "e", "m", "e", "n", "t">>,
   <<"n", "o", "n", "-", "d", "i", "s", "c", "l", "o", "s", "u", "r", "e">>,
   <<"C", "O", "N", "F", "I", "D", "E", "N", "T", "I", "A", "L">>,
   <<"p", "a", "y", ".", "m", "e", "n", "t">>,
   <<"p", "a", "y", "-", "m", "e", "n", "t">>,
   <<"N", ".", "D", ".", "A", ".">>,
   <<"D", "u", "e", "_", "D", "a", "t", "e", " ", "2", "0", "2", "4">>,
   <<"h", "e", "l", "l", "o", " ", "w", "o", "r", "l", "d">>}

FbTexts == TextsUpTo(MaxTextLen) \cup SampleTexts

\* the ruleNames arguments: nil, and catalogs with and without built-in names
FbRuleNames == {<<>>, <<"Custom Rule">>, <<"NDA Check", "Custom Rule">>}

FallbackInit ==
  /\ now = 0
  /\ rl = GlobalLimiters
  /\ NoCallers
  /\ \E t \in FbTexts : fb = [NoFallbackCall EXCEPT !.text = t]
  /\ groqAPIKey = ""
  /\ rulesTable = <<>>
  /\ cls = NoClassifyCall
  /\ score = NoScoreCall
  /\ SvcIdle

\* s.fallbackRuleExtraction(ocrText, ruleNames)
FallbackCall(names) ==
  /\ \E out \in fallbackRuleExtraction(fb.text, names) :
       fb' = [fb EXCEPT !.ruleNames = names, !.out = out, !.done = TRUE]
  /\ UNCHANGED <<now, rl, callerVars, groqAPIKey, rulesTable, cls, score, svcVars>>

FallbackNext == \E names \in FbRuleNames : FallbackCall(names)

SpecFallback == FallbackInit /\ [][FallbackNext]_vars

\* the normal form of one character as the claim words it: a letter in lower
\* case, a digit or a space kept, a hyphen or underscore as a space, anything
\* else dropped
ClaimNormalChar(c) ==
  IF c \in Range(UpperCase) \cup Range(LowerCase) THEN <<LowerChar(c)>>
  ELSE IF c \in Digits \cup Whitespace THEN <<c>>
  ELSE IF c \in {"-", "_"} THEN <<" ">>
  ELSE <<>>

RECURSIVE ClaimNormal(_)
ClaimNormal(text) ==
  IF text = <<>> THEN <<>>
  ELSE ClaimNormalChar(Head(text)) \o ClaimNormal(Tail(text))

\* C10: fallbackRuleExtraction returns no rule for the empty text; otherwise
\* it returns, once each, exactly the rules of the built-in table one of whose
\* keywords is a substring of the normalised text, never another name, and
\* whatever the ruleNames argument and the earlier calls were.
C10_FallbackExactKeywordMatch ==
  fb.done =>
    /\ fb.text = <<>> => fb.out = <<>>
    /\ Range(fb.out) =
         {r \in BuiltinRules :
            \E term \in Range(ruleMatchers[r]) : Contains(ClaimNormal(fb.text), term)}
    /\ \A i, j \in DOMAIN fb.out : i # j => fb.out[i] # fb.out[j]
    /\ Range(fb.out) \subseteq BuiltinRules

\* a rule found only through the normalisation, and absent from ruleNames
C10_Witness ==
  /\ fb.done
  /\ fb.out # <<>>
  /\ \A r \in BuiltinRules :
       \A term \in Range(ruleMatchers[r]) : ~Contains(fb.text, term)
  /\ fb.ruleNames # <<>>
  /\ \A i \in DOMAIN fb.out : fb.out[i] \notin Range(fb.ruleNames)

\* ------------------------------------------------------------------------
\* GetAllComplianceRules and DetermineApplicableRules
\* ------------------------------------------------------------------------
\* Allow calls made on a key after the limiter began to refuse it
MaxDenied == 1
\* rows of compliance_rules: name and severity (name is not unique)
Rule(name, severity) == [name |-> name, severity |-> severity]

\* the tables of the classification specification
ClsCatalogs ==
  {<<Rule("Custom Rule", "low")>>,
   <<Rule("Custom Rule", "medium"), Rule("NDA Check", "high")>>}

\* the texts of the classification specification
ClsTexts == {<<>>, <<"N", ".", "D", ".", "A", ".">>}

RuleNamesOf(rules) == [i \in 1..Len(rules) |-> rules[i].name]

\* the tables of the upload specification
UploadCatalogs ==
  {<<Rule("NDA Check", "high")>>,
   <<Rule("Custom Rule", "low"), Rule("NDA Check", "high")>>}

\* the OCR texts of the upload specification
UploadTexts ==
  {<<"N", "o", "n", "-", "D", "i", "s", "c", "l", "o", "s", "u", "r", "e", " ", "A", "g", "r", "e", "e", "m", "e", "n", "t">>,
   <<"a", " ", "n", "o", "n", "-", "d", "i", "s", "c", "l", "o", "s", "u", "r", "e", " ", "a", "g", "r", "e", "e", "m", "e", "n", "t", ",", " ", "s", "i", "g", "n", "e", "d">>,
   <<"h", "e", "l", "l", "o", " ", "w", "o", "r", "l", "d">>}

\* the outcome of one client.Do: a transport error (resp is nil), or a response
NoBody == [kind |-> "none", rules |-> <<>>]
TransportError == [err |-> TRUE, status |-> 0, body |-> NoBody]
Response(status, body) == [err |-> FALSE, status |-> status, body |-> body]

\* the violated_rules arrays of the remote answers
AnswerLists ==
  {<<>>, <<"NDA Check">>, <<"Unknown Rule">>, <<"Unknown Rule", "NDA Check">>}

\* bodies of a 200 response: unreadable, not JSON, no choices, content that is
\* not JSON, content that is a JSON object without violated_rules, content
\* with a violated_rules array
Bodies ==
  {[kind |-> k, rules |-> <<>>] :
     k \in {"unreadable", "not_json", "no_choices", "content_not_json", "no_array"}}
  \cup {[kind |-> "rules", rules |-> l] : l \in AnswerLists}

Retryable == {TransportError, Response(429, NoBody)}

FinalResponses == {Response(500, NoBody)} \cup {Response(200, b) : b \in Bodies}

\* what the remote service does on attempts 1..maxRetries; what follows the
\* attempt that ends the loop is never observed and is left at that outcome
RECURSIVE ScriptsOfLen(_)
ScriptsOfLen(n) ==
  IF n = 0 THEN {<<>>}
  ELSE {[i \in 1..n |-> f] : f \in FinalResponses}
       \cup {<<r>> \o s : r \in Retryable, s \in ScriptsOfLen(n - 1)}

Scripts == ScriptsOfLen(maxRetries)

NoScript == [i \in 1..maxRetries |-> TransportError]

\* s.GetAllComplianceRules(): the gate on rule_retrieval, then db.Find
GetAllComplianceRules(r, dbErr, t) ==
  LET g == Allow(r, "rule_retrieval", t)
  IN  IF ~g.ok THEN [rl |-> g.rl, err |-> "rate limit exceeded for rule retrieval",
                     rules |-> <<>>, read |-> 0]
      ELSE IF dbErr THEN [rl |-> g.rl, err |-> "db", rules |-> <<>>, read |-> 1]
      ELSE [rl |-> g.rl, err |-> "", rules |-> rulesTable, read |-> 1]

\* the result of a DetermineApplicableRules call and what it did on the way
Result(rules, err, via) ==
  [done |-> TRUE, rules |-> rules, err |-> err, panicked |-> FALSE, via |-> via,
   remoteCalls |-> 0, catalogReads |-> 0, waited |-> 0, attempts |-> <<>>,
   final |-> "none", text |-> <<>>]

Panic == [Result(<<>>, "", "panic") EXCEPT !.panicked = TRUE]

\* the kind of an attempt's outcome, for the record of the call
AttemptKind(o) ==
  IF o.err THEN "error" ELSE IF o.status = 429 THEN "429" ELSE "response"

RetryOn5xx(o) == o.err \/ o.status = 429 \/ o.status >= 500

\* the negation of: err == nil && resp.StatusCode != 429
RetryOn(o) == o.err \/ o.status = 429

\* the retry loop from attempt number `attempt` (0-based) on: the response
\* left in resp (nil after a transport error), the calls made, the seconds slept
RECURSIVE RetryLoop(_, _, _)
RetryLoop(script, attempt, waited) ==
  LET o == script[attempt + 1]
      pause == IF attempt < maxRetries - 1 THEN 10 * (attempt + 1) ELSE 0
  IN  IF ~RetryOn(o) \/ attempt + 1 >= maxRetries
      THEN [resp |-> o, calls |-> attempt + 1,
            waited |-> IF RetryOn(o) THEN waited + pause ELSE waited]
      ELSE RetryLoop(script, attempt + 1, waited + pause)

\* contains(ruleNames, rule) applied to each name of the answer
RECURSIVE ValidRules(_, _)
ValidRules(violatedRules, ruleNames) ==
  IF violatedRules = <<>> THEN <<>>
  ELSE (IF Head(violatedRules) \in Range(ruleNames)
        THEN <<Head(violatedRules)>> ELSE <<>>)
       \o ValidRules(Tail(violatedRules), ruleNames)

\* the ruleNames arguments DetermineApplicableRules passes to the fallback
ClsRuleNames == {<<>>} \cup {RuleNamesOf(c) : c \in ClsCatalogs \cup UploadCatalogs}

\* fallbackRuleExtraction on the inputs of the classification and upload
\* specifications
FallbackTable ==
  [a \in (ClsTexts \cup UploadTexts) \X ClsRuleNames |->
     fallbackRuleExtraction(a[1], a[2])]

Fallback(ocrText, ruleNames) ==
  {Result(out, "", "fallback") : out \in FallbackTable[<<ocrText, ruleNames>>]}

\* the body of the final response of kind "final"
FinalKind(resp) ==
  IF resp.err THEN "nil"
  ELSE IF resp.status # 200 THEN "non_200"
  ELSE resp.body.kind

\* the code after the retry loop: status check, reads and parses, validation
AfterLoop(ocrText, ruleNames, resp) ==
  IF resp.err THEN {Panic}
  ELSE IF resp.status # 200 THEN Fallback(ocrText, ruleNames)
  ELSE IF resp.body.kind \in {"unreadable", "not_json", "content_not_json"}
       THEN Fallback(ocrText, ruleNames)
  ELSE IF resp.body.kind \in {"no_choices", "no_array"}
       THEN {Result(<<>>, "", "remote")}
  ELSE IF Len(resp.body.rules) = 0 THEN {Result(<<>>, "", "remote")}
  ELSE {Result(ValidRules(resp.body.rules, ruleNames), "", "remote")}

OnGateDeniedError(ocrText) == {Result(<<>>, "rate limit exceeded", "error")}

\* the return of the branch taken when groqRateLimiter refuses the call
OnGateDenied(ocrText) == Fallback(ocrText, <<>>)

OnMissingKeyFallback(ocrText, ruleNames) == Fallback(ocrText, ruleNames)

\* the return of the branch taken when VITE_GROQ_API_KEY is empty
OnMissingKey(ocrText, ruleNames) ==
  {Result(<<>>, "VITE_GROQ_API_KEY environment variable is not set", "error")}

\* the code after the gate admitted the call
AfterGate(ocrText, c, apiKey, script) ==
  IF c.err # "" THEN {[Result(<<>>, c.err, "error") EXCEPT !.catalogReads = c.read]}
  ELSE IF apiKey = ""
       THEN {[r EXCEPT !.catalogReads = c.read] :
               r \in OnMissingKey(ocrText, RuleNamesOf(c.rules))}
  ELSE LET loop == RetryLoop(script, 0, 0)
       IN  {[r EXCEPT !.catalogReads = c.read,
                      !.remoteCalls = loop.calls,
                      !.waited = loop.waited,
                      !.attempts = [i \in 1..loop.calls |-> AttemptKind(script[i])],
                      !.final = FinalKind(loop.resp)] :
              r \in AfterLoop(ocrText, RuleNamesOf(c.rules), loop.resp)}

GroqCalls == rl["groqRateLimiter"].requestCount["groq_api_call"]

\* s.DetermineApplicableRules(ocrText)
DetermineApplicableRules(ocrText, dbErr, script) ==
  /\ GroqCalls < GroqLimit + MaxDenied
  /\ LET g == Allow(rl["groqRateLimiter"], "groq_api_call", now)
         c == GetAllComplianceRules(rl["ruleRateLimiter"], dbErr, now)
     IN  IF ~g.ok
         THEN /\ rl' = [rl EXCEPT !["groqRateLimiter"] = g.rl]
              /\ \E r \in OnGateDenied(ocrText) : cls' = [r EXCEPT !.text = ocrText]
         ELSE /\ rl' = [rl EXCEPT !["groqRateLimiter"] = g.rl,
                                  !["ruleRateLimiter"] = c.rl]
              /\ \E r \in AfterGate(ocrText, c, groqAPIKey, script) :
                   cls' = [r EXCEPT !.text = ocrText]
  /\ UNCHANGED <<now, callerVars, fb, groqAPIKey, rulesTable, score, svcVars>>

ClassifyInit ==
  /\ now = 0
  /\ rl = GlobalLimiters
  /\ NoCallers
  /\ fb = NoFallbackCall
  /\ groqAPIKey \in {"", "gsk"}
  /\ rulesTable \in ClsCatalogs
  /\ cls = NoClassifyCall
  /\ score = NoScoreCall
  /\ SvcIdle

\* the script matters only to a call that reaches the remote service
ScriptsFor(dbErr) ==
  IF GroqCalls < GroqLimit /\ ~dbErr /\ groqAPIKey # "" THEN Scripts ELSE {NoScript}

ClassifyNext ==
  \E ocrText \in ClsTexts, dbErr \in BOOLEAN :
    \E script \in ScriptsFor(dbErr) : DetermineApplicableRules(ocrText, dbErr, script)

SpecClassify == ClassifyInit /\ [][ClassifyNext]_vars

CatalogNames == Range(RuleNamesOf(rulesTable))

Returned == cls.done /\ cls.err = "" /\ ~cls.panicked

\* C1: every rule name DetermineApplicableRules returns is the name of a rule
\* of the catalog, on every path.
C1_OnlyCatalogNames == Returned => Range(cls.rules) \subseteq CatalogNames

\* the last call was made with the credential set and read the catalog
ReachedRemote == cls.done /\ cls.remoteCalls > 0

\* C2: with the credential set and the catalog read, a call whose attempts all
\* failed by transport error, or all got 429, or whose final response is not
\* 200, or has a body that cannot be read or parsed, or a content that cannot
\* be parsed, returns FallbackMatcher's output for the text and no error, and
\* does not crash.
C2_RemoteFailureFallsBack ==
  (/\ ReachedRemote
   /\ \/ cls.attempts = [i \in 1..maxRetries |-> "error"]
      \/ cls.attempts = [i \in 1..maxRetries |-> "429"]
      \/ cls.final \in {"non_200", "unreadable", "not_json", "content_not_json"})
    => /\ cls.err = ""
       /\ ~cls.panicked
       /\ Range(cls.rules) = fallbackViolated(cls.text)

\* the last call was refused by the remote-call gate
GateDenied == cls.done /\ GroqCalls > rl["groqRateLimiter"].limit

\* C3: a call the remote-call gate refuses returns the fallback's result for
\* the text and no error, having made no remote call, no catalog read (the
\* rule_retrieval count stays at the number of admitted calls) and no wait.
C3_DeniedFallsBackAtOnce ==
  GateDenied =>
    /\ cls.err = "" /\ ~cls.panicked
    /\ Range(cls.rules) = fallbackViolated(cls.text)
    /\ cls.remoteCalls = 0 /\ cls.catalogReads = 0 /\ cls.waited = 0
    /\ rl["ruleRateLimiter"].requestCount["rule_retrieval"] =
         rl["groqRateLimiter"].limit

\* a refused call whose text the fallback flags
C3_Witness == GateDenied /\ cls.rules # <<>> /\ groqAPIKey # ""

MaxOutcomes == 2

\* a field of a result map that is missing or is not a string
Absent == "<absent>"

\* the tables of the scoring specification
ScoreCatalogs ==
  {<<Rule("NDA Check", "high"), Rule("Custom Rule", "low")>>,
   <<Rule("NDA Check", "medium"), Rule("Custom Rule", "critical")>>,
   <<Rule("NDA Check", "high")>>}

\* the result maps: rule_name and status
Outcomes ==
  [rule_name : {"NDA Check", "Custom Rule", Absent},
   status : {"fail", "pass", Absent}]

RECURSIVE OutcomeListsUpTo(_)
OutcomeListsUpTo(n) ==
  IF n = 0 THEN {<<>>}
  ELSE LET shorter == OutcomeListsUpTo(n - 1)
       IN  shorter \cup {Append(t, o) : t \in {u \in shorter : Len(u) = n - 1},
                                        o \in Outcomes}

severityWeights == [high |-> 3, medium |-> 2, low |-> 1]

\* severityWeights[ruleSeverity], 1.0 for an unknown severity
Weight(severity) ==
  IF severity \in DOMAIN severityWeights THEN severityWeights[severity] ELSE 1

\* ruleMap[name]: the last rule of the list with that name
RuleMapHas(rules, name) == \E i \in 1..Len(rules) : rules[i].name = name

RuleMapGet(rules, name) ==
  rules[CHOOSE i \in 1..Len(rules) :
          /\ rules[i].name = name
          /\ \A j \in 1..Len(rules) : rules[j].name = name => j <= i]

\* what the loop body adds for results[i] (i counted from 1, as rules is)
Contribution(results, rules, i) ==
  LET result == results[i]
      named == result.rule_name # Absent
      ruleName == IF named THEN result.rule_name
                  ELSE IF i <= Len(rules) THEN rules[i].name ELSE Absent
  IN  IF result.status = Absent THEN 0
      ELSE IF ~named /\ i > Len(rules) THEN 0
      ELSE IF result.status = "fail" /\ RuleMapHas(rules, ruleName)
           THEN Weight(RuleMapGet(rules, ruleName).severity)
      ELSE 0

\* riskScore after the loop has handled results[1..n]
RECURSIVE ScoreLoop(_, _, _)
ScoreLoop(results, rules, n) ==
  IF n = 0 THEN 0
  ELSE ScoreLoop(results, rules, n - 1) + Contribution(results, rules, n)

\* the score of an admitted call
RiskScore(results, rules) == ScoreLoop(results, rules, Len(results))

ScoreCalls == rl["ruleRateLimiter"].requestCount["risk_score_calculation"]

\* s.CalculateRiskScore(results, rules), with the rules of the table
CalculateRiskScore(results) ==
  /\ ScoreCalls < RuleLimit + MaxDenied
  /\ LET g == Allow(rl["ruleRateLimiter"], "risk_score_calculation", now)
     IN  /\ rl' = [rl EXCEPT !["ruleRateLimiter"] = g.rl]
         /\ score' = [done |-> TRUE, results |-> results,
                      value |-> IF ~g.ok THEN 0 ELSE RiskScore(results, rulesTable)]
  /\ UNCHANGED <<now, callerVars, fb, groqAPIKey, rulesTable, cls, svcVars>>

ScoreInit ==
  /\ now = 0
  /\ rl = GlobalLimiters
  /\ NoCallers
  /\ fb = NoFallbackCall
  /\ groqAPIKey = "gsk"
  /\ rulesTable \in ScoreCatalogs
  /\ cls = NoClassifyCall
  /\ score = NoScoreCall
  /\ SvcIdle

ScoreNext == \E results \in OutcomeListsUpTo(MaxOutcomes) : CalculateRiskScore(results)

SpecScore == ScoreInit /\ [][ScoreNext]_vars

\* the rearrangements of a list
PermutationsOf(list) ==
  {[i \in 1..Len(list) |-> list[p[i]]] : p \in Orderings(1..Len(list))}

\* the last call was admitted by the gate
ScoreAdmitted == score.done /\ ScoreCalls <= rl["ruleRateLimiter"].limit

\* C7: every permutation of the outcome list yields the score the call
\* returned, also when outcomes lack a rule_name or a status.
C7_ScoreOrderIndependent ==
  ScoreAdmitted =>
    \A p \in PermutationsOf(score.results) : RiskScore(p, rulesTable) = score.value

\* the sum the claim describes: the weight of the severity of the rule, over
\* the outcomes with status fail whose rule_name names a rule of the catalog
RECURSIVE ClaimedSum(_, _)
ClaimedSum(results, rules) ==
  IF results = <<>> THEN 0
  ELSE (IF /\ Head(results).status = "fail"
           /\ Head(results).rule_name \in Range(RuleNamesOf(rules))
        THEN Weight(RuleMapGet(rules, Head(results).rule_name).severity)
        ELSE 0)
       + ClaimedSum(Tail(results), rules)

\* C8: CalculateRiskScore returns the sum of the severity weights (high 3,
\* medium 2, low 1, other 1) of the outcomes with status fail whose rule name
\* is in the catalog; every other outcome adds 0.
C8_ScoreIsWeightedSum ==
  score.done => score.value = ClaimedSum(score.results, rulesTable)

\* C9: two calls with equal outcome lists and equal catalogs return equal
\* scores, whatever ran before each of them.
C9_ScoreDeterministic ==
  [][(score.done /\ score'.done /\ score'.results = score.results)
       => score'.value = score.value]_vars

\* ------------------------------------------------------------------------
\* CheckRuleCompliance
\* ------------------------------------------------------------------------
\* a JSON value of a response object: a string, another type, or no such field
JStr(s) == [t |-> "string", v |-> s]
JOther(t, v) == [t |-> t, v |-> v]
JAbsent == [t |-> "absent", v |-> ""]

\* a rule pattern: a regular expression without metacharacters, or one that
\* does not compile
Literal(s) == [kind |-> "literal", s |-> s]
InvalidPattern == [kind |-> "invalid", s |-> <<>>]

\* the term occurs in the text at position i
At(text, i, term) ==
  /\ i + Len(term) - 1 <= Len(text)
  /\ SubSeq(text, i, i + Len(term) - 1) = term

\* regexp.MatchString(`(?i)(signature|signed).*date`, ocrText)
MatchSignatureDate(ocrText) ==
  LET low == ToLower(ocrText)
  IN  \E w \in {<<"s", "i", "g", "n", "a", "t", "u", "r", "e">>, <<"s", "i", "g", "n", "e", "d">>} :
        \E i \in 1..Len(low) :
          /\ At(low, i, w)
          /\ \E j \in (i + Len(w))..Len(low) :
               /\ At(low, j, <<"d", "a", "t", "e">>)
               /\ \A k \in (i + Len(w))..(j - 1) : low[k] # "\n"

\* regexp.MatchString(rulePattern, ocrText); an error leaves false
MatchString(rulePattern, ocrText) ==
  rulePattern.kind = "literal" /\ Contains(ocrText, rulePattern.s)

\* the switch on ruleName that sets complianceCheck
complianceCheck(ocrText, ruleName, rulePattern) ==
  IF ruleName = "Confidentiality Marking"
  THEN LET exactMatch == Contains(ocrText, <<"C", "o", "n", "f", "i", "d", "e", "n", "t", "i", "a", "l">>)
           caseInsensitiveMatch == Contains(ToLower(ocrText), ToLower(<<"C", "o", "n", "f", "i", "d", "e", "n", "t", "i", "a", "l">>))
           regexCaseInsensitiveMatch == Contains(ToLower(ocrText), <<"c", "o", "n", "f", "i", "d", "e", "n", "t", "i", "a", "l">>)
           regexMatch == Contains(ocrText, <<"C", "o", "n", "f", "i", "d", "e", "n", "t", "i", "a", "l">>)
       IN  exactMatch \/ caseInsensitiveMatch \/ regexCaseInsensitiveMatch \/ regexMatch
  ELSE IF ruleName = "Signature Requirement" THEN MatchSignatureDate(ocrText)
  ELSE MatchString(rulePattern, ocrText)

\* the outcome of one client.Do of CheckRuleCompliance
ChkNoBody == [kind |-> "none", status |-> JAbsent]
ChkTransportError == [err |-> TRUE, status |-> 0, body |-> ChkNoBody]
ChkResponse(status, body) == [err |-> FALSE, status |-> status, body |-> body]

\* the status fields of the objects the remote service answers with
StatusFields ==
  {JStr("pass"), JStr("fail"), JStr("partial_pass"), JStr("soft_fail"),
   JStr("PASS"), JAbsent, JOther("bool", "true"), JOther("number", "1")}

\* bodies of a 200 response: unreadable, not JSON, no choices, empty content,
\* content that is not JSON, the content null, a content object
ChkBodies ==
  {[kind |-> k, status |-> JAbsent] :
     k \in {"unreadable", "not_json", "no_choices", "empty_content",
            "content_not_json", "null"}}
  \cup {[kind |-> "object", status |-> f] : f \in StatusFields}

ChkFinalResponses == {ChkResponse(500, ChkNoBody)} \cup {ChkResponse(200, b) : b \in ChkBodies}

\* what the remote service does on attempts 1..3: an answer at once, an answer
\* after one or two transport errors, or three transport errors
ChkScripts ==
  {[i \in 1..maxRetries |-> f] : f \in ChkFinalResponses}
  \cup {<<ChkTransportError, f, f>> : f \in {ChkResponse(200, [kind |-> "object", status |-> JStr("pass")])}}
  \cup {<<ChkTransportError, ChkTransportError, f>> :
          f \in {ChkResponse(200, [kind |-> "object", status |-> JStr("pass")])}}
  \cup {[i \in 1..maxRetries |-> ChkTransportError]}

NoChkScript == [i \in 1..maxRetries |-> ChkTransportError]

\* the retry loop of CheckRuleCompliance from attempt number `attempt` on: it
\* ends on the first attempt without transport error and sleeps attempt+1
\* seconds after each failed one
RECURSIVE ChkRetryLoop(_, _, _)
ChkRetryLoop(script, attempt, waited) ==
  LET o == script[attempt + 1]
  IN  IF ~o.err THEN [resp |-> o, calls |-> attempt + 1, waited |-> waited]
      ELSE IF attempt + 1 >= 3
           THEN [resp |-> o, calls |-> attempt + 1, waited |-> waited + attempt + 1]
      ELSE ChkRetryLoop(script, attempt + 1, waited + attempt + 1)

\* status, _ := complianceResponse["status"].(string)
StatusString(field) == IF field.t = "string" THEN field.v ELSE ""

NormalizeStatusLenient(field) ==
  IF StatusString(field) \in {"pass", "partial_pass"} THEN JStr("pass") ELSE JStr("fail")

\* the switch that normalises complianceResponse["status"]
NormalizeStatus(field) ==
  IF StatusString(field) \in {"partial_pass", "soft_fail"} THEN JStr("fail")
  ELSE IF StatusString(field) = "pass" THEN field
  ELSE JStr("fail")

\* the result of a CheckRuleCompliance call and what it did on the way
ChkResult(status, err) ==
  [done |-> TRUE, status |-> status, err |-> err, panicked |-> FALSE,
   text |-> <<>>, ruleName |-> "", rulePattern |-> InvalidPattern,
   local |-> FALSE, remoteCalls |-> 0, waited |-> 0, remoteStatus |-> JAbsent,
   final |-> "none"]

ChkError(err) == ChkResult(JAbsent, err)

\* the write complianceResponse["status"] = "fail" into the nil map that
\* json.Unmarshal leaves for the content null
ChkPanic == [ChkResult(JAbsent, "") EXCEPT !.panicked = TRUE]

ChkFinalKind(resp) ==
  IF resp.err THEN "nil"
  ELSE IF resp.status # 200 THEN "non_200"
  ELSE resp.body.kind

\* the return taken when err is still set after the retry loop
OnRetriesExhausted(local) ==
  ChkError("failed to send Groq API request after 3 attempts")

\* the code after the retry loop: status check, reads and parses, the
\* normalisation of the status
ChkAfterLoop(local, resp) ==
  IF resp.err THEN OnRetriesExhausted(local)
  ELSE IF resp.status # 200 THEN ChkError("non-200 status code")
  ELSE IF resp.body.kind = "unreadable" THEN ChkError("failed to read Groq response")
  ELSE IF resp.body.kind = "not_json"
       THEN ChkError("failed to parse Groq response structure")
  ELSE IF resp.body.kind \in {"no_choices", "empty_content"}
       THEN ChkError("no compliance analysis returned from Groq")
  ELSE IF resp.body.kind = "content_not_json"
       THEN ChkError("failed to parse compliance response JSON")
  ELSE IF resp.body.kind = "null" THEN ChkPanic
  ELSE [ChkResult(NormalizeStatus(resp.body.status), "")
          EXCEPT !.remoteStatus = resp.body.status]

\* the code after the gate admitted the call
ChkAfterGate(ocrText, ruleName, rulePattern, script) ==
  IF ocrText = <<>> THEN ChkError("empty OCR text provided")
  ELSE IF ruleName = "" THEN ChkError("empty rule name provided")
  ELSE LET local == complianceCheck(ocrText, ruleName, rulePattern)
           loop == ChkRetryLoop(script, 0, 0)
       IN  [ChkAfterLoop(local, loop.resp)
              EXCEPT !.local = local, !.remoteCalls = loop.calls,
                     !.waited = loop.waited, !.final = ChkFinalKind(loop.resp)]

ChkCalls == rl["ruleRateLimiter"].requestCount["rule_compliance_check"]

\* s.CheckRuleCompliance(ocrText, ruleName, rulePattern)
CheckRuleCompliance(ocrText, ruleName, rulePattern, script) ==
  /\ ChkCalls < RuleLimit + MaxDenied
  /\ LET g == Allow(rl["ruleRateLimiter"], "rule_compliance_check", now)
         r == IF ~g.ok THEN ChkError("rate limit exceeded for rule compliance check")
              ELSE ChkAfterGate(ocrText, ruleName, rulePattern, script)
     IN  /\ rl' = [rl EXCEPT !["ruleRateLimiter"] = g.rl]
         /\ chk' = [r EXCEPT !.text = ocrText, !.ruleName = ruleName,
                             !.rulePattern = rulePattern]
  /\ UNCHANGED <<now, callerVars, fb, groqAPIKey, rulesTable, cls, score, batch, actVars>>

\* the arguments of the calls of the evaluation specification
ChkArguments ==
  {<<<<>>, "Custom Rule", Literal(<<"x">>)>>,
   <<<<"x">>, "", Literal(<<"x">>)>>,
   <<<<"C", "O", "N", "F", "I", "D", "E", "N", "T", "I", "A", "L">>, "Confidentiality Marking", Literal(<<"z", "z">>)>>,
   <<<<"x">>, "Confidentiality Marking", Literal(<<"x">>)>>,
   <<<<"S", "i", "g", "n", "e", "d", " ", "d", "a", "t", "e">>, "Signature Requirement", Literal(<<"z", "z">>)>>,
   <<<<"S", "i", "g", "n", "e", "d", "\n", "d", "a", "t", "e">>, "Signature Requirement", Literal(<<"S">>)>>,
   <<<<"x">>, "Custom Rule", Literal(<<"x">>)>>,
   <<<<"x">>, "Custom Rule", Literal(<<"y">>)>>,
   <<<<"x">>, "Custom Rule", InvalidPattern>>}

CheckInit ==
  /\ now = 0
  /\ rl = GlobalLimiters
  /\ NoCallers
  /\ fb = NoFallbackCall
  /\ groqAPIKey = "gsk"
  /\ rulesTable = <<>>
  /\ cls = NoClassifyCall
  /\ score = NoScoreCall
  /\ SvcIdle

\* the script matters only to a call that reaches the remote service
ChkScriptsFor(a) ==
  IF ChkCalls < RuleLimit /\ a[1] # <<>> /\ a[2] # "" THEN ChkScripts ELSE {NoChkScript}

CheckNext ==
  \E a \in ChkArguments :
    \E script \in ChkScriptsFor(a) : CheckRuleCompliance(a[1], a[2], a[3], script)

SpecCheck == CheckInit /\ [][CheckNext]_vars

\* the last call returned a result
ChkReturned == chk.done /\ chk.err = "" /\ ~chk.panicked

\* C11: whenever CheckRuleCompliance returns a result its status is exactly
\* "pass" or "fail", and it is "pass" only if the status field of the remote
\* response is the string "pass"; partial_pass, soft_fail, a missing status, a
\* non-string status and every other value yield "fail".
C11_FailClosed ==
  ChkReturned =>
    /\ chk.status \in {JStr("pass"), JStr("fail")}
    /\ chk.status = JStr("pass") <=> chk.remoteStatus = JStr("pass")

\* a result for a remote status that is neither pass nor fail, returned as fail
C11_Witness ==
  /\ ChkReturned
  /\ chk.remoteStatus \in {JStr("partial_pass"), JOther("bool", "true")}
  /\ chk.status = JStr("fail")

\* C12: when the remote call of CheckRuleCompliance fails on every retry the
\* call returns no error but an outcome decided by the local pattern match:
\* pass if it matched, fail otherwise.
C12_RetriesExhaustedUsesLocalSignal ==
  (chk.done /\ chk.final = "nil") =>
    /\ chk.err = ""
    /\ ~chk.panicked
    /\ chk.status = (IF chk.local THEN JStr("pass") ELSE JStr("fail"))

\* ------------------------------------------------------------------------
\* DetermineApplicableRulesBatch
\* ------------------------------------------------------------------------
\* most documents of one batch call
MaxDocs == 3
\* largest batch size of a batch call
MaxBatchSize == 2
\* batch calls of one behaviour
MaxBatchCalls == 2

\* fmt.Sprintf("doc_%d", i) for the indices the model uses
DocIDs == <<"doc_0", "doc_1", "doc_2", "doc_3", "doc_4", "doc_5">>
DocID(i) == DocIDs[i + 1]

\* the documents of a call: document k is the text "text k"
DocumentsOfLen(n) == [k \in 1..n |-> k]

\* ruleNames := make([]string, len(allRules)) followed by the appends
BatchRuleNames(allRules) == [i \in 1..Len(allRules) |-> ""] \o RuleNamesOf(allRules)

\* prepareBatchComplianceRequest(documents, ruleNames).Documents
prepareBatchComplianceRequest(documents) ==
  [i \in 1..Len(documents) |-> [ID |-> DocID(i - 1), OCRText |-> documents[i]]]

sliceContains(slice, item) == \E i \in DOMAIN slice : slice[i] = item

RECURSIVE validateRules(_, _)
validateRules(suggestedRules, availableRules) ==
  IF suggestedRules = <<>> THEN <<>>
  ELSE (IF sliceContains(availableRules, Head(suggestedRules))
        THEN <<Head(suggestedRules)>> ELSE <<>>)
       \o validateRules(Tail(suggestedRules), availableRules)

\* the rule names the remote service gives for a document when it answers
\* in full
AnswerFor(doc) ==
  IF doc % 3 = 1 THEN <<"NDA Check">>
  ELSE IF doc % 3 = 2 THEN <<"Custom Rule", "Unknown Rule">>
  ELSE <<"Custom Rule", "NDA Check">>

\* the "results" object of a remote answer to the request: every document
\* answered; or the first document answered with an empty name, the others
\* left out and an identifier that was not sent added
ResultsOf(kind, request) ==
  IF kind = "full"
  THEN {[id |-> request[i].ID, rules |-> AnswerFor(request[i].OCRText)] :
          i \in DOMAIN request}
  ELSE {[id |-> request[i].ID, rules |-> <<"">>] : i \in DOMAIN request \cap {1}}
       \cup {[id |-> "doc_9", rules |-> <<"Unknown Rule">>]}

\* the outcome of one client.Do of sendBatchComplianceRequest; the body of a
\* 200 response is unreadable, not JSON, without choices, a content that is
\* not JSON, or a content with a results object
BatchTransportError == [err |-> TRUE, status |-> 0, kind |-> "none"]
BatchResponse(status, kind) == [err |-> FALSE, status |-> status, kind |-> kind]

\* what the remote service does on the three attempts made for one chunk
BatchScripts ==
  {[i \in 1..3 |-> BatchTransportError],
   <<BatchTransportError, BatchResponse(200, "full"), BatchResponse(200, "full")>>,
   [i \in 1..3 |-> BatchResponse(200, "full")],
   [i \in 1..3 |-> BatchResponse(200, "partial")]}

\* the retry loop of sendBatchComplianceRequest from attempt number `attempt`
RECURSIVE BatchRetryLoop(_, _, _)
BatchRetryLoop(script, attempt, waited) ==
  LET o == script[attempt + 1]
  IN  IF ~o.err THEN [resp |-> o, calls |-> attempt + 1, waited |-> waited]
      ELSE IF attempt + 1 >= 3
           THEN [resp |-> o, calls |-> attempt + 1, waited |-> waited + attempt + 1]
      ELSE BatchRetryLoop(script, attempt + 1, waited + attempt + 1)

\* sendBatchComplianceRequest(batchRequest, apiKey): an error or the Results
\* map, with the requests made
sendBatchComplianceRequest(request, script) ==
  LET loop == BatchRetryLoop(script, 0, 0)
      resp == loop.resp
      failed == \/ resp.err
                \/ resp.status # 200
                \/ resp.kind \in {"unreadable", "not_json", "content_not_json"}
  IN  [err |-> failed,
       Results |-> IF failed \/ resp.kind = "no_choices" THEN {}
                   ELSE ResultsOf(resp.kind, request),
       calls |-> loop.calls, waited |-> loop.waited]

\* results[docID] = validRules for every entry of the response
MergeResults(results, Results, ruleNames) ==
  {e \in results : \A a \in Results : a.id # e.id}
  \cup {[id |-> a.id,
         rules |-> IF Len(validateRules(a.rules, ruleNames)) = 0
                   THEN <<"General Compliance">>
                   ELSE validateRules(a.rules, ruleNames)] : a \in Results}

NextStartByOne(i, batchSize) == i + 1

\* i += batchSize
NextStart(i, batchSize) == i + batchSize

\* the loop over the chunks from index i (0-based) on; scripts[k] is what the
\* remote service does for the k-th request
RECURSIVE BatchLoop(_, _, _, _, _, _, _)
BatchLoop(documents, batchSize, ruleNames, scripts, i, results, chunks) ==
  IF ~(i < Len(documents)) THEN [results |-> results, chunks |-> chunks]
  ELSE LET end == Min(i + batchSize, Len(documents))
           batchDocuments == SubSeq(documents, i + 1, end)
           request == prepareBatchComplianceRequest(batchDocuments)
           sent == sendBatchComplianceRequest(request, scripts[Len(chunks) + 1])
           chunk == [docs |-> batchDocuments, failed |-> sent.err,
                     Results |-> sent.Results, calls |-> sent.calls]
       IN  BatchLoop(documents, batchSize, ruleNames, scripts,
                     NextStart(i, batchSize),
                     IF sent.err THEN results
                     ELSE MergeResults(results, sent.Results, ruleNames),
                     Append(chunks, chunk))

\* the result of a DetermineApplicableRulesBatch call and what it did on the way
BatchResult(results, err, chunks) ==
  [done |-> TRUE, results |-> results, err |-> err, chunks |-> chunks,
   panicked |-> FALSE, hung |-> FALSE, documents |-> <<>>, batchSize |-> 0]

BatchError(err) == BatchResult({}, err, <<>>)

\* documents[i:end] with end < i: slice bounds out of range
BatchPanic == [BatchResult({}, "", <<>>) EXCEPT !.panicked = TRUE]

\* i += 0: the loop sends the request of an empty chunk for ever
BatchHang == [BatchResult({}, "", <<>>) EXCEPT !.hung = TRUE]

\* the code after the gate admitted the call
BatchAfterGate(documents, batchSize, c, apiKey, scripts) ==
  IF c.err # "" THEN BatchError(c.err)
  ELSE IF apiKey = "" THEN BatchError("VITE_GROQ_API_KEY environment variable is not set")
  ELSE IF batchSize = 0 THEN BatchHang
  ELSE IF batchSize < 0 THEN BatchPanic
  ELSE LET loop == BatchLoop(documents, batchSize, BatchRuleNames(c.rules),
                             scripts, 0, {}, <<>>)
       IN  BatchResult(loop.results, "", loop.chunks)

BatchCalls == rl["groqRateLimiter"].requestCount["batch_rule_determination"]

\* s.DetermineApplicableRulesBatch(documents, batchSize)
DetermineApplicableRulesBatch(documents, batchSize, dbErr, scripts) ==
  /\ BatchCalls < MaxBatchCalls
  /\ LET g == Allow(rl["groqRateLimiter"], "batch_rule_determination", now)
         c == GetAllComplianceRules(rl["ruleRateLimiter"], dbErr, now)
         r == IF Len(documents) = 0
              THEN BatchError("no documents provided for batch processing")
              ELSE IF ~g.ok THEN BatchError("rate limit exceeded for batch rule determination")
              ELSE BatchAfterGate(documents, batchSize, c, groqAPIKey, scripts)
     IN  /\ rl' = IF Len(documents) = 0 THEN rl
                  ELSE IF ~g.ok THEN [rl EXCEPT !["groqRateLimiter"] = g.rl]
                  ELSE [rl EXCEPT !["groqRateLimiter"] = g.rl,
                                  !["ruleRateLimiter"] = c.rl]
         /\ batch' = [r EXCEPT !.documents = documents, !.batchSize = batchSize]
  /\ UNCHANGED <<now, callerVars, fb, groqAPIKey, rulesTable, cls, score, chk, actVars>>

\* the tables of the batch specification
BatchCatalogs == {<<>>, <<Rule("NDA Check", "high"), Rule("Custom Rule", "low")>>}

BatchInit ==
  /\ now = 0
  /\ rl = GlobalLimiters
  /\ NoCallers
  /\ fb = NoFallbackCall
  /\ groqAPIKey \in {"", "gsk"}
  /\ rulesTable \in BatchCatalogs
  /\ cls = NoClassifyCall
  /\ score = NoScoreCall
  /\ SvcIdle

NoBatchScripts(n) == [k \in 1..n |-> [i \in 1..3 |-> BatchTransportError]]

\* the scripts matter only to a call that reaches the loop over the chunks
BatchScriptsFor(n, batchSize, dbErr) ==
  IF n > 0 /\ batchSize > 0 /\ ~dbErr /\ groqAPIKey # ""
  THEN [1..n -> BatchScripts] ELSE {NoBatchScripts(n)}

BatchNext ==
  \E n \in 0..MaxDocs, batchSize \in (-1)..MaxBatchSize, dbErr \in BOOLEAN :
    \E scripts \in BatchScriptsFor(n, batchSize, dbErr) :
      DetermineApplicableRulesBatch(DocumentsOfLen(n), batchSize, dbErr, scripts)

SpecBatch == BatchInit /\ [][BatchNext]_vars

\* the last call went through the loop over the chunks and returned its map
BatchReturned == batch.done /\ batch.err = "" /\ ~batch.panicked /\ ~batch.hung

RECURSIVE Concat(_)
Concat(seqs) == IF seqs = <<>> THEN <<>> ELSE Head(seqs) \o Concat(Tail(seqs))

CeilDiv(n, b) == (n + b - 1) \div b

RECURSIVE SumCalls(_)
SumCalls(chunks) ==
  IF chunks = <<>> THEN 0 ELSE Head(chunks).calls + SumCalls(Tail(chunks))

\* C13: for n >= 1 documents and batch size b >= 1 the chunks are contiguous,
\* hold at most b documents, cover every document exactly once in input
\* order, and one remote request is issued per chunk: ceil(n/b) requests when
\* none fails.
C13_ContiguousChunks ==
  (BatchReturned /\ Len(batch.documents) >= 1 /\ batch.batchSize >= 1) =>
    /\ Concat([k \in DOMAIN batch.chunks |-> batch.chunks[k].docs]) = batch.documents
    /\ \A k \in DOMAIN batch.chunks :
         /\ Len(batch.chunks[k].docs) >= 1
         /\ Len(batch.chunks[k].docs) <= batch.batchSize
         /\ batch.chunks[k].calls >= 1
    /\ Len(batch.chunks) = CeilDiv(Len(batch.documents), batch.batchSize)
    /\ (\A k \in DOMAIN batch.chunks : batch.chunks[k].calls = 1)
         => SumCalls(batch.chunks) = CeilDiv(Len(batch.documents), batch.batchSize)

\* three documents with batch size 2: two requests, for chunks of 2 and 1
C13_Witness ==
  /\ BatchReturned
  /\ Len(batch.documents) = 3
  /\ batch.batchSize = 2
  /\ [k \in DOMAIN batch.chunks |-> Len(batch.chunks[k].docs)] = <<2, 1>>
  /\ SumCalls(batch.chunks) = 2

\* every chunk's request succeeded and answered for each document sent
AllAnswered ==
  \A k \in DOMAIN batch.chunks :
    /\ ~batch.chunks[k].failed
    /\ Cardinality(batch.chunks[k].Results) = Len(batch.chunks[k].docs)

\* the validated names the response of chunk k gives for its i-th document
ValidSuggestion(k, i) ==
  LET chunk == batch.chunks[k]
      given == {a \in chunk.Results : a.id = DocID(i - 1)}
  IN  IF chunk.failed \/ given = {} THEN <<>>
      ELSE validateRules((CHOOSE a \in given : TRUE).rules, BatchRuleNames(rulesTable))

\* the entries of the returned map under the identifier of that document
EntriesOf(i) == {e \in batch.results : e.id = DocID(i - 1)}

\* C14: when every chunk's remote call succeeds and answers for each document
\* it was sent, the returned map holds one entry per input document, each the
\* validated result of that document; results of one chunk are never replaced
\* by those of another chunk.
C14_OneEntryPerDocument ==
  (BatchReturned /\ AllAnswered) =>
    /\ Cardinality(batch.results) = Len(batch.documents)
    /\ \A k \in DOMAIN batch.chunks : \A i \in DOMAIN batch.chunks[k].docs :
         \E e \in EntriesOf(i) :
           ValidSuggestion(k, i) \in {e.rules, <<>>}

\* C15: after DetermineApplicableRulesBatch returns a result, every input
\* document that received no valid rule suggestion, including the documents
\* of a failed chunk and those the response omitted, is mapped to exactly
\* ["General Compliance"].
C15_NoDocumentUnclassified ==
  BatchReturned =>
    \A k \in DOMAIN batch.chunks : \A i \in DOMAIN batch.chunks[k].docs :
      ValidSuggestion(k, i) = <<>>
        => EntriesOf(i) = {[id |-> DocID(i - 1), rules |-> <<"General Compliance">>]}

\* C16: every rule-name list of the returned map is non-empty and is either
\* exactly ["General Compliance"] or made only of names of catalog rules,
\* whatever the remote response holds.
C16_OnlyValidatedNames ==
  BatchReturned =>
    \A e \in batch.results :
      /\ e.rules # <<>>
      /\ \/ e.rules = <<"General Compliance">>
         \/ Range(e.rules) \subseteq CatalogNames

\* ------------------------------------------------------------------------
\* CreateActionItems, UpdateActionItem, AssignAndNotifyActionItem
\* ------------------------------------------------------------------------
\* documents saved in one behaviour of the action-item specification
MaxDocuments == 1

\* the table of the action-item specification, in primary-key order; the id
\* of a rule is its position
ActCatalog ==
  <<Rule("NDA Check", "high"), Rule("Custom Rule", "low"), Rule("NDA Check", "medium")>>

\* one element of parsed_data: rule_name and status are strings or Absent;
\* severity and explanation are what the type assertion leaves ("" if the
\* field is missing)
ActOutcome(rule_name, status, severity, explanation) ==
  [rule_name |-> rule_name, status |-> status, severity |-> severity,
   explanation |-> explanation]

\* the parsed_data column: bytes that are not JSON, an array of outcomes, or
\* an object with a status flag
InvalidJSON == [kind |-> "invalid", outcomes |-> <<>>, status |-> "none"]
OutcomeArray(list) == [kind |-> "array", outcomes |-> list, status |-> "none"]
StatusObject(flag) == [kind |-> "object", outcomes |-> <<>>, status |-> flag]

\* the parsed_data of the documents of the action-item specification
ActParsedData ==
  {InvalidJSON, StatusObject("true"),
   OutcomeArray(<<ActOutcome("NDA Check", "fail", <<"h", "i", "g", "h">>, "Missing NDA"),
                  ActOutcome("Custom Rule", "pass", <<"l", "o", "w">>, "ok"),
                  ActOutcome("NDA Check", "fail", <<"m", "e", "d", "i", "u", "m">>,
                             "Missing NDA")>>),
   OutcomeArray(<<ActOutcome(Absent, "fail", <<"h", "i", "g", "h">>, ""),
                  ActOutcome("Custom Rule", "partial_pass", <<"l", "o", "w">>, ""),
                  ActOutcome("NDA Check", Absent, <<"h", "i", "g", "h">>, ""),
                  ActOutcome("Unknown Rule", "fail", <<"h", "i", "g", "h">>, "y"),
                  ActOutcome("Custom Rule", "fail", <<"L", "O", "W">>, "x")>>),
   OutcomeArray(<<ActOutcome("Custom Rule", "fail", <<>>, ""),
                  ActOutcome("NDA Check", "fail", <<"h", "i", "g", "h">>, "Missing NDA")>>)}

UpperChar(c) ==
  IF \E i \in 1..Len(LowerCase) : LowerCase[i] = c
  THEN UpperCase[CHOOSE i \in 1..Len(LowerCase) : LowerCase[i] = c]
  ELSE c

\* a character that does not end a word for strings.Title
IsWordChar(c) == c \in Range(UpperCase) \cup Range(LowerCase) \cup Digits \cup {"_"}

\* strings.Title
Title(s) ==
  [i \in 1..Len(s) |->
     IF i = 1 \/ ~IsWordChar(s[i - 1]) THEN UpperChar(s[i]) ELSE s[i]]

\* s.db.Where("name = ?", ruleName).First(&rule): the id of the rule found,
\* 0 if there is none
FirstRuleByName(ruleName) ==
  IF \E i \in DOMAIN rulesTable : rulesTable[i].name = ruleName
  THEN CHOOSE i \in DOMAIN rulesTable :
         /\ rulesTable[i].name = ruleName
         /\ \A j \in DOMAIN rulesTable : rulesTable[j].name = ruleName => i <= j
  ELSE 0

\* time.Now().AddDate(0, months, 0)
AddMonths(t, months) == [from |-> t, months |-> months]

PriorityAsGiven(severity) == severity

\* strings.Title(strings.ToLower(severity))
Priority(severity) == Title(ToLower(severity))

\* the ActionItem built for a failed outcome
NewActionItem(docID, ruleID, result, t) ==
  [DocumentID |-> docID, RuleID |-> ruleID,
   Description |-> <<"Address", result.rule_name, "non-compliance", result.explanation>>,
   Priority |-> Priority(result.severity), Status |-> "pending",
   AssignedTo |-> "", DueDate |-> AddMonths(t, 1), CreatedAt |-> t, UpdatedAt |-> t]

\* the DocumentRuleResult built for a failed outcome
NewDocumentRuleResult(docID, ruleID, result, t) ==
  [DocumentID |-> docID, RuleID |-> ruleID, Status |-> "fail",
   Details |-> result, CreatedAt |-> t]

SkipsUnnamedOnly(result) ==
  \/ result.status # "fail"
  \/ result.rule_name = Absent

SkipsUnresolvedOnly(result) ==
  \/ result.rule_name = Absent
  \/ FirstRuleByName(result.rule_name) = 0

\* the outcomes the loop passes over: status not the string fail, rule_name
\* not a string, rule not found
Skips(result) ==
  \/ result.status # "fail"
  \/ result.rule_name = Absent
  \/ FirstRuleByName(result.rule_name) = 0

ItemNotCreatedResultKept(items, ress, ress2) ==
  [err |-> "create action item", items |-> items, ress |-> ress2, lookups |-> 0]

\* the return of the loop when Create(&action) fails: the error, with no row
\* added for the outcome; ress2 is ress with the row of the outcome
ItemNotCreated(items, ress, ress2) ==
  [err |-> "create action item", items |-> items, ress |-> ress, lookups |-> 0]

\* the loop over the parsed outcomes; the write number `fault` of the call
\* fails (none if 0), `writes` were made so far; lookups counts the queries
\* on compliance_rules
RECURSIVE CreateLoop(_, _, _, _, _, _, _)
CreateLoop(docID, results, fault, writes, items, ress, t) ==
  IF results = <<>> THEN [err |-> "", items |-> items, ress |-> ress, lookups |-> 0]
  ELSE LET result == Head(results)
           ruleID == FirstRuleByName(result.rule_name)
           items2 == Append(items, NewActionItem(docID, ruleID, result, t))
           ress2 == Append(ress, NewDocumentRuleResult(docID, ruleID, result, t))
           looked == IF result.status = "fail" /\ result.rule_name # Absent
                     THEN 1 ELSE 0
           rest ==
             IF Skips(result)
             THEN CreateLoop(docID, Tail(results), fault, writes, items, ress, t)
             ELSE IF writes + 1 = fault
                  THEN ItemNotCreated(items, ress, ress2)
             ELSE IF writes + 2 = fault
                  THEN [err |-> "create document rule result",
                        items |-> items2, ress |-> ress, lookups |-> 0]
             ELSE CreateLoop(docID, Tail(results), fault, writes + 2, items2, ress2, t)
       IN  [rest EXCEPT !.lookups = @ + looked]

UnmarshalLenient(parsedData) ==
  [err |-> "",
   results |-> IF parsedData.kind = "array" THEN parsedData.outcomes ELSE <<>>]

\* json.Unmarshal([]byte(doc.ParsedData), &results) into a slice of maps
UnmarshalResults(parsedData) ==
  IF parsedData.kind = "array" THEN [err |-> "", results |-> parsedData.outcomes]
  ELSE [err |-> "unmarshal", results |-> <<>>]

\* the title of a saved document, taken from the name of its file
TitleOf(docID) == <<"file", docID>>

\* the row of documents: `classified` keeps the outcomes the row was saved with
NewDocument(docID, parsedData, riskScore) ==
  [Title |-> TitleOf(docID), ParsedData |-> parsedData, RiskScore |-> riskScore,
   classified |-> parsedData]

\* a document is saved with this parsed_data and s.CreateActionItems(doc) runs
CreateActionItems(parsedData, fault) ==
  /\ Len(documentsTable) < MaxDocuments
  /\ LET docID == Len(documentsTable) + 1
         parsed == UnmarshalResults(parsedData)
         loop == IF parsed.err # ""
                 THEN [err |-> parsed.err, items |-> actionItems,
                       ress |-> documentRuleResults, lookups |-> 0]
                 ELSE CreateLoop(docID, parsed.results, fault, 0,
                                 actionItems, documentRuleResults, now)
     IN  /\ documentsTable' = Append(documentsTable, NewDocument(docID, parsedData, 0))
         /\ actionItems' = loop.items
         /\ documentRuleResults' = loop.ress
         /\ created' = [done |-> TRUE, doc |-> docID, err |-> loop.err,
                        lookups |-> loop.lookups, fault |-> fault,
                        items |-> SubSeq(loop.items, Len(actionItems) + 1,
                                         Len(loop.items)),
                        results |-> SubSeq(loop.ress, Len(documentRuleResults) + 1,
                                           Len(loop.ress))]
  /\ UNCHANGED <<now, rl, callerVars, fb, groqAPIKey, rulesTable, cls, score,
                 chk, batch, listing, upload, upd, asg>>

\* the locals of a request before its first step
NoRow == [DocumentID |-> 0, RuleID |-> 0]
NoDetails == ActOutcome(Absent, Absent, <<>>, "")

UpdRequest(actionID) ==
  [pc |-> "fetch_action", actionID |-> actionID, action |-> NoRow,
   resultID |-> 0, docResult |-> NoRow, parsedData |-> InvalidJSON,
   err |-> "", failedAt |-> 0, writes |-> <<>>, detailsBefore |-> NoDetails,
   again |-> FALSE]

\* the return of UpdateActionItem: the locals are gone, the writes made and
\* the (document, rule) pair of the item stay on record
UpdReturn(r) ==
  [r EXCEPT !.pc = "done", !.docResult = NoRow, !.parsedData = InvalidJSON,
            !.again = FALSE]

UpdFailSilently(k, err) == UpdReturn([upd EXCEPT !.failedAt = k])

\* return err from sub-step k of UpdateActionItem
UpdFail(k, err) == UpdReturn([upd EXCEPT !.err = err, !.failedAt = k])

\* a request for UpdateActionItem(actionID) arrives
UpdateActionItem(actionID) ==
  /\ upd.pc \in {"idle", "done"}
  /\ upd' = UpdRequest(actionID)
  /\ UNCHANGED <<now, rl, callerVars, fb, groqAPIKey, rulesTable, cls, score,
                 chk, batch, listing, upload, storeVars, created, asg>>

\* s.db.First(&action, "id = ?", actionID); `again` notes that the row read
\* was completed already
UpdFetchAction(fail) ==
  /\ upd.pc = "fetch_action"
  /\ upd' = IF fail \/ upd.actionID \notin DOMAIN actionItems
            THEN UpdFail(1, "fetch action item")
            ELSE [upd EXCEPT !.pc = "update_action",
                             !.action =
                               [DocumentID |-> actionItems[upd.actionID].DocumentID,
                                RuleID |-> actionItems[upd.actionID].RuleID],
                             !.again = actionItems[upd.actionID].Status = "completed"]
  /\ UNCHANGED <<now, rl, callerVars, fb, groqAPIKey, rulesTable, cls, score,
                 chk, batch, listing, upload, storeVars, created, asg>>

\* s.db.Model(&action).Omit("AssignedTo").Updates(Status, UpdatedAt)
UpdUpdateAction(fail) ==
  /\ upd.pc = "update_action"
  /\ IF fail
     THEN /\ upd' = UpdFail(1, "update action item")
          /\ UNCHANGED actionItems
     ELSE /\ actionItems' = [actionItems EXCEPT ![upd.actionID].Status = "completed",
                                                ![upd.actionID].UpdatedAt = now]
          /\ upd' = [upd EXCEPT !.pc = "fetch_result",
                                !.writes = Append(@, "action_item")]
  /\ UNCHANGED <<now, rl, callerVars, fb, groqAPIKey, rulesTable, cls, score,
                 chk, batch, listing, upload, documentsTable, documentRuleResults, created, asg>>

ResultsOfDocument(docID, ruleID) ==
  {i \in DOMAIN documentRuleResults : documentRuleResults[i].DocumentID = docID}

\* the rows of document_rule_results with this document_id and rule_id
ResultsOfPair(docID, ruleID) ==
  {i \in DOMAIN documentRuleResults :
     /\ documentRuleResults[i].DocumentID = docID
     /\ documentRuleResults[i].RuleID = ruleID}

\* s.db.Where("document_id = ? AND rule_id = ?", ...).First(&docResult)
UpdFetchResult(fail) ==
  /\ upd.pc = "fetch_result"
  /\ LET found == ResultsOfPair(upd.action.DocumentID, upd.action.RuleID)
         first == CHOOSE i \in found : \A j \in found : i <= j
     IN  upd' = IF fail \/ found = {}
                THEN UpdFail(2, "fetch document rule result")
                ELSE [upd EXCEPT !.pc = "save_result", !.resultID = first,
                                 !.docResult = documentRuleResults[first]]
  /\ UNCHANGED <<now, rl, callerVars, fb, groqAPIKey, rulesTable, cls, score,
                 chk, batch, listing, upload, storeVars, created, asg>>

MarkerOnly(details) == [NoDetails EXCEPT !.explanation = "No issues"]

\* details["explanation"] = "No issues" on the parsed Details
WithMarker(details) == [details EXCEPT !.explanation = "No issues"]

\* s.db.Save(&docResult) with the status, details and created_at set
UpdSaveResult(fail) ==
  /\ upd.pc = "save_result"
  /\ IF fail
     THEN /\ upd' = UpdFail(2, "save document rule result")
          /\ UNCHANGED documentRuleResults
     ELSE /\ documentRuleResults' =
               [documentRuleResults EXCEPT ![upd.resultID] =
                  [upd.docResult EXCEPT !.Status = "resolved",
                                        !.Details = WithMarker(@),
                                        !.CreatedAt = now]]
          /\ upd' = [upd EXCEPT !.pc = "fetch_document",
                                !.writes = Append(@, "document_rule_result"),
                                !.detailsBefore = upd.docResult.Details]
  /\ UNCHANGED <<now, rl, callerVars, fb, groqAPIKey, rulesTable, cls, score,
                 chk, batch, listing, upload, documentsTable, actionItems, created, asg>>

\* s.db.First(&doc, "id = ?", action.DocumentID)
UpdFetchDocument(fail) ==
  /\ upd.pc = "fetch_document"
  /\ upd' = IF fail \/ upd.action.DocumentID \notin DOMAIN documentsTable
            THEN UpdFail(3, "fetch document")
            ELSE [upd EXCEPT !.pc = "update_document",
                             !.parsedData =
                               documentsTable[upd.action.DocumentID].ParsedData]
  /\ UNCHANGED <<now, rl, callerVars, fb, groqAPIKey, rulesTable, cls, score,
                 chk, batch, listing, upload, storeVars, created, asg>>

\* parsedData["status"] = true on the parsed_data read as a JSON object; bytes
\* that are not a JSON object leave an empty map
StatusTrue(parsedData) ==
  IF parsedData.kind = "object" THEN [parsedData EXCEPT !.status = "true"]
  ELSE StatusObject("true")

\* s.db.Model(&doc).Updates(ParsedData, UpdatedAt), then return nil
UpdUpdateDocument(fail) ==
  /\ upd.pc = "update_document"
  /\ IF fail
     THEN /\ upd' = UpdFail(3, "update document")
          /\ UNCHANGED documentsTable
     ELSE /\ documentsTable' =
               [documentsTable EXCEPT ![upd.action.DocumentID].ParsedData =
                                        StatusTrue(upd.parsedData)]
          /\ upd' = UpdReturn([upd EXCEPT !.writes = Append(@, "document")])
  /\ UNCHANGED <<now, rl, callerVars, fb, groqAPIKey, rulesTable, cls, score,
                 chk, batch, listing, upload, actionItems, documentRuleResults, created, asg>>

AsgRequest(actionID, email) ==
  [pc |-> "fetch_action", actionID |-> actionID, email |-> email,
   action |-> NoRow, stale |-> FALSE, err |-> ""]

\* a request for AssignAndNotifyActionItem(actionID, email) arrives
AssignAndNotifyActionItem(actionID, email) ==
  /\ asg.pc \in {"idle", "done"}
  /\ asg' = AsgRequest(actionID, email)
  /\ UNCHANGED <<now, rl, callerVars, fb, groqAPIKey, rulesTable, cls, score,
                 chk, batch, listing, upload, storeVars, created, upd>>

\* s.db.First(&action, "id = ?", actionID)
AsgFetchAction(fail) ==
  /\ asg.pc = "fetch_action"
  /\ asg' = IF fail \/ asg.actionID \notin DOMAIN actionItems
            THEN [asg EXCEPT !.pc = "done", !.err = "fetch action item"]
            ELSE [asg EXCEPT !.pc = "update_action",
                             !.action = actionItems[asg.actionID]]
  /\ UNCHANGED <<now, rl, callerVars, fb, groqAPIKey, rulesTable, cls, score,
                 chk, batch, listing, upload, storeVars, created, upd>>

AssignSaveRow(row, action, email, t) ==
  [action EXCEPT !.AssignedTo = email, !.UpdatedAt = t]

\* the row after Update("AssignedTo", email): the column and updated_at
AssignColumn(row, action, email, t) ==
  [row EXCEPT !.AssignedTo = email, !.UpdatedAt = t]

\* s.db.Model(&action).Update("AssignedTo", email)
AsgUpdateAction(fail) ==
  /\ asg.pc = "update_action"
  /\ IF fail
     THEN /\ asg' = [asg EXCEPT !.pc = "done", !.err = "update assigned_to",
                                !.action = NoRow]
          /\ UNCHANGED actionItems
     ELSE /\ actionItems' =
               [actionItems EXCEPT ![asg.actionID] =
                  AssignColumn(@, asg.action, asg.email, now)]
          /\ asg' = [asg EXCEPT !.pc = "send_mail", !.action = NoRow,
                                !.stale = asg.action # actionItems[asg.actionID]]
  /\ UNCHANGED <<now, rl, callerVars, fb, groqAPIKey, rulesTable, cls, score,
                 chk, batch, listing, upload, documentsTable, documentRuleResults, created, upd>>

\* smtp.SendMail, then the return
AsgSendMail(fail) ==
  /\ asg.pc = "send_mail"
  /\ asg' = [asg EXCEPT !.pc = "done",
                        !.err = IF fail THEN "send mail" ELSE ""]
  /\ UNCHANGED <<now, rl, callerVars, fb, groqAPIKey, rulesTable, cls, score,
                 chk, batch, listing, upload, storeVars, created, upd>>

ActionsInit ==
  /\ now = 0
  /\ rl = GlobalLimiters
  /\ NoCallers
  /\ fb = NoFallbackCall
  /\ groqAPIKey = "gsk"
  /\ rulesTable = ActCatalog
  /\ cls = NoClassifyCall
  /\ score = NoScoreCall
  /\ SvcIdle

\* the ids of the requests: those of the rows and one that names no row
ActionIDs == 1..(Len(actionItems) + 1)

\* the writes of a CreateActionItems call that may fail
CreateFaults == 0..4

\* the steps of the goroutine serving UpdateActionItem
UpdNext ==
  \/ \E actionID \in ActionIDs : UpdateActionItem(actionID)
  \/ \E fail \in BOOLEAN : UpdFetchAction(fail)
  \/ \E fail \in BOOLEAN : UpdUpdateAction(fail)
  \/ \E fail \in BOOLEAN : UpdFetchResult(fail)
  \/ \E fail \in BOOLEAN : UpdSaveResult(fail)
  \/ \E fail \in BOOLEAN : UpdFetchDocument(fail)
  \/ \E fail \in BOOLEAN : UpdUpdateDocument(fail)

\* the steps of the goroutine serving AssignAndNotifyActionItem
AsgNext ==
  \/ \E actionID \in ActionIDs : AssignAndNotifyActionItem(actionID, "a@example.com")
  \/ \E fail \in BOOLEAN : AsgFetchAction(fail)
  \/ \E fail \in BOOLEAN : AsgUpdateAction(fail)
  \/ \E fail \in BOOLEAN : AsgSendMail(fail)

\* documents are processed and action items completed
ActionsNext ==
  \/ \E parsedData \in ActParsedData, fault \in CreateFaults :
       CreateActionItems(parsedData, fault)
  \/ UpdNext

SpecActions == ActionsInit /\ [][ActionsNext]_vars

\* the parsed_data of the documents of the lifecycle specification
LifecycleParsedData ==
  {OutcomeArray(<<ActOutcome("Custom Rule", "pass", <<"l", "o", "w">>, "ok"),
                  ActOutcome("NDA Check", "fail", <<"h", "i", "g", "h">>, "Missing NDA")>>)}

\* action items are created, assigned and completed by concurrent requests
LifecycleNext ==
  \/ \E parsedData \in LifecycleParsedData : CreateActionItems(parsedData, 0)
  \/ UpdNext
  \/ AsgNext

SpecLifecycle == ActionsInit /\ [][LifecycleNext]_vars

AnyStatus(item) == TRUE

\* Where("status = ?", "pending")
IsPending(item) == item.Status = "pending"

\* the map appended for a pending item whose document was read
ListedItem(id, item, doc) ==
  [id |-> id, document_id |-> item.DocumentID, title |-> doc.Title,
   rule_id |-> item.RuleID, priority |-> item.Priority,
   assigned_to |-> item.AssignedTo, status |-> item.Status]

\* the loop over items[from..]: an item whose document cannot be read is
\* passed over
RECURSIVE ListLoop(_, _)
ListLoop(from, unreadable) ==
  IF from > Len(actionItems) THEN <<>>
  ELSE LET item == actionItems[from]
           read == /\ item.DocumentID \in DOMAIN documentsTable
                   /\ item.DocumentID \notin unreadable
       IN  (IF IsPending(item) /\ read
            THEN <<ListedItem(from, item, documentsTable[item.DocumentID])>>
            ELSE <<>>)
           \o ListLoop(from + 1, unreadable)

\* s.GetPendingActionItemsWithTitles(): the query on action_items fails or
\* not, the title queries fail for the documents of `unreadable`
GetPendingActionItemsWithTitles(fail, unreadable) ==
  /\ listing' = IF fail
                THEN [done |-> TRUE, err |-> "query", isNil |-> TRUE, items |-> <<>>,
                      unreadable |-> unreadable]
                ELSE [done |-> TRUE, err |-> "", isNil |-> FALSE,
                      items |-> ListLoop(1, unreadable), unreadable |-> unreadable]
  /\ UNCHANGED <<now, rl, callerVars, fb, groqAPIKey, rulesTable, cls, score,
                 chk, batch, storeVars, created, upd, asg, upload>>

\* the parsed_data of the documents of the listing specification
ListingParsedData ==
  {OutcomeArray(<<ActOutcome("NDA Check", "fail", <<"h", "i", "g", "h">>, "Missing NDA"),
                  ActOutcome("Custom Rule", "fail", <<"l", "o", "w">>, "x")>>)}

\* action items are created, completed and listed
ListingNext ==
  \/ \E parsedData \in ListingParsedData : CreateActionItems(parsedData, 0)
  \/ UpdNext
  \/ \E fail \in BOOLEAN, unreadable \in SUBSET DOMAIN documentsTable :
       GetPendingActionItemsWithTitles(fail, unreadable)

SpecListing == ActionsInit /\ [][ListingNext]_vars

\* action items are created and completed while the clock advances
CompleteNext ==
  \/ \E parsedData \in LifecycleParsedData : CreateActionItems(parsedData, 0)
  \/ UpdNext
  \/ Tick

SpecComplete == ActionsInit /\ [][CompleteNext]_vars

\* the outcomes CreateActionItems was given for the document
ClassifiedOutcomes(docID) == documentsTable[docID].classified.outcomes

\* an outcome with status fail whose rule name is that of a catalog rule
Qualifies(o) == o.status = "fail" /\ o.rule_name \in CatalogNames

\* a word with its first letter in upper case and the others in lower case
Capitalised(s) ==
  IF s = <<>> THEN <<>>
  ELSE <<UpperChar(LowerChar(Head(s)))>> \o ToLower(Tail(s))

\* C17: for a document whose outcome list parses, a CreateActionItems call
\* that returns nil has created, for each outcome with status fail whose rule
\* name resolves to a catalog rule, exactly one ActionItem (pending, priority
\* the severity capitalised, due one month after creation, no assignee) and
\* exactly one DocumentRuleResult (fail, details the outcome) for that
\* document and rule; the other outcomes create no record.
C17_OneItemPerFailedOutcome ==
  (created.done /\ created.err = "") =>
    LET failed == SelectSeq(ClassifiedOutcomes(created.doc), Qualifies)
    IN  /\ Len(created.items) = Len(failed)
        /\ Len(created.results) = Len(failed)
        /\ \A k \in DOMAIN failed :
             /\ created.items[k].DocumentID = created.doc
             /\ created.items[k].RuleID \in DOMAIN rulesTable
             /\ rulesTable[created.items[k].RuleID].name = failed[k].rule_name
             /\ created.items[k].Status = "pending"
             /\ created.items[k].Priority = Capitalised(failed[k].severity)
             /\ created.items[k].DueDate = AddMonths(created.items[k].CreatedAt, 1)
             /\ created.items[k].AssignedTo = ""
             /\ created.results[k].DocumentID = created.doc
             /\ created.results[k].RuleID = created.items[k].RuleID
             /\ created.results[k].Status = "fail"
             /\ created.results[k].Details = failed[k]

\* a call that created a record and passed over outcomes that were not fail
C17_Witness ==
  /\ created.done
  /\ created.err = ""
  /\ created.items # <<>>
  /\ \E k \in DOMAIN ClassifiedOutcomes(created.doc) :
       ClassifiedOutcomes(created.doc)[k].status \notin {"fail", Absent}
  /\ \E k \in DOMAIN created.items : created.items[k].Priority = <<"L", "o", "w">>

\* the rows of action_items with this document_id and rule_id
ItemsOfPair(docID, ruleID) ==
  {i \in DOMAIN actionItems :
     actionItems[i].DocumentID = docID /\ actionItems[i].RuleID = ruleID}

\* C18: in every reachable state there is at most one DocumentRuleResult and
\* at most one ActionItem per (document, rule) pair, and a DocumentRuleResult
\* exists only for a rule whose outcome for that document was fail when it
\* was classified.
C18_AtMostOnePerPair ==
  \A d \in DOMAIN documentsTable, r \in DOMAIN rulesTable :
    /\ Cardinality(ResultsOfPair(d, r)) <= 1
    /\ Cardinality(ItemsOfPair(d, r)) <= 1
    /\ ResultsOfPair(d, r) # {} =>
         \E k \in DOMAIN ClassifiedOutcomes(d) :
           /\ ClassifiedOutcomes(d)[k].rule_name = rulesTable[r].name
           /\ ClassifiedOutcomes(d)[k].status = "fail"

\* C19: an ActionItem that is completed is completed in every later state,
\* under every interleaving of CreateActionItems, UpdateActionItem and
\* AssignAndNotifyActionItem; no step sets a status back to pending.
C19_NeverRegresses ==
  [][\A i \in DOMAIN actionItems :
       actionItems[i].Status = "completed" => actionItems'[i].Status = "completed"]_vars

\* an assignment written from a row read before the item was completed
C19_Witness ==
  /\ asg.pc \in {"send_mail", "done"}
  /\ asg.stale
  /\ asg.actionID \in DOMAIN actionItems
  /\ actionItems[asg.actionID].Status = "completed"
  /\ actionItems[asg.actionID].AssignedTo # ""

\* the writes of UpdateActionItem in the order of the claim
ThreeWrites == <<"action_item", "document_rule_result", "document">>

\* the item of the request is completed
ItemCompleted == actionItems[upd.actionID].Status = "completed"

\* a result of the item's pair is resolved, its explanation the marker and
\* its other details those it had
ResultResolved ==
  \E i \in ResultsOfPair(upd.action.DocumentID, upd.action.RuleID) :
    /\ documentRuleResults[i].Status = "resolved"
    /\ documentRuleResults[i].Details.explanation = "No issues"
    /\ documentRuleResults[i].Details.rule_name = upd.detailsBefore.rule_name
    /\ documentRuleResults[i].Details.status = upd.detailsBefore.status
    /\ documentRuleResults[i].Details.severity = upd.detailsBefore.severity

\* C20: a successful UpdateActionItem makes three writes in order: the item
\* becomes completed, the DocumentRuleResult of its pair becomes resolved with
\* the explanation marker and its other details kept, the document's
\* parsed_data gets status = true. If sub-step k fails the call returns the
\* error, the effects of the sub-steps before k stay and no later write is made.
C20_ThreeWritesInOrder ==
  upd.pc = "done" =>
    IF upd.err = ""
    THEN /\ upd.writes = ThreeWrites
         /\ ItemCompleted
         /\ ResultResolved
         /\ documentsTable[upd.action.DocumentID].ParsedData.status = "true"
    ELSE /\ upd.failedAt \in 1..3
         /\ upd.writes = SubSeq(ThreeWrites, 1, upd.failedAt - 1)
         /\ upd.failedAt >= 2 => ItemCompleted
         /\ upd.failedAt = 3 => ResultResolved

\* a request that made the three writes
C20_Witness ==
  /\ upd.pc = "done"
  /\ upd.err = ""
  /\ upd.writes = ThreeWrites
  /\ upd.detailsBefore.explanation = "Missing NDA"

\* C21: UpdateActionItem with an id that matches no ActionItem returns an
\* error from its first fetch and changes nothing: no ActionItem,
\* DocumentRuleResult or Document is written.
C21_UnknownIdChangesNothing ==
  [][(/\ upd.pc = "fetch_action"
      /\ upd.actionID \notin DOMAIN actionItems
      /\ upd' # upd)
       => /\ upd'.pc = "done"
          /\ upd'.err # ""
          /\ upd'.writes = <<>>
          /\ storeVars' = storeVars]_vars

\* a request whose id names no row of a table that has rows
C21_Witness ==
  /\ upd.pc = "done"
  /\ upd.err = "fetch action item"
  /\ upd.actionID \notin DOMAIN actionItems
  /\ actionItems # <<>>

\* C22: every step of an UpdateActionItem call on an ActionItem that was
\* completed when the call read it leaves every stored field of every record
\* as it was, which both ways of the claim (a no-op, a "not pending" error)
\* require.
C22_SecondCompletionChangesNothing ==
  [][(/\ upd.pc \notin {"idle", "done"}
      /\ upd.again
      /\ upd' # upd)
       => storeVars' = storeVars]_vars

\* the rows of action_items with this document_id
ItemsOfDocument(docID) ==
  {i \in DOMAIN actionItems : actionItems[i].DocumentID = docID}

\* C23: the status flag of a document's parsed_data is true only while every
\* ActionItem of the document is completed; completing one item of a document
\* that still has a pending item does not set it.
C23_FlagOnlyWhenAllCompleted ==
  \A d \in DOMAIN documentsTable :
    documentsTable[d].ParsedData.status = "true" =>
      \A i \in ItemsOfDocument(d) : actionItems[i].Status = "completed"

\* C24: while no CreateActionItems or UpdateActionItem call is in progress,
\* an ActionItem is completed if and only if a DocumentRuleResult of its
\* (document, rule) pair is resolved.
C24_LinkedRecordsSynchronized ==
  upd.pc \in {"idle", "done"} =>
    \A i \in DOMAIN actionItems :
      actionItems[i].Status = "completed" <=>
        \E j \in ResultsOfPair(actionItems[i].DocumentID, actionItems[i].RuleID) :
          documentRuleResults[j].Status = "resolved"

\* C25: CreateActionItems on a document whose parsed_data is not a JSON array
\* of outcomes returns an error before any store access: it makes no rule
\* lookup and creates no ActionItem and no DocumentRuleResult.
C25_InvalidParsedDataTouchesNothing ==
  (created.done /\ documentsTable[created.doc].classified.kind # "array") =>
    /\ created.err # ""
    /\ created.lookups = 0
    /\ created.items = <<>>
    /\ created.results = <<>>

\* a call on a document whose parsed_data is a JSON object
C25_Witness ==
  /\ created.done
  /\ documentsTable[created.doc].classified.kind = "object"
  /\ created.err = "unmarshal"

\* the ids listed by the last call
ListedIDs == {listing.items[k].id : k \in DOMAIN listing.items}

MaxUploads == 2

\* a severity of the catalog as the text strings.ToLower and strings.Title read
SeverityText ==
  [high |-> <<"h", "i", "g", "h">>, medium |-> <<"m", "e", "d", "i", "u", "m">>, low |-> <<"l", "o", "w">>]

ComplianceResultAnyViolation(rule, violatedRuleNames) ==
  IF violatedRuleNames # <<>>
  THEN ActOutcome(rule.name, "fail", SeverityText[rule.severity], "violates")
  ELSE ActOutcome(rule.name, "pass", SeverityText[rule.severity], "complies")

\* the element of complianceResults built for a rule of the catalog
ComplianceResult(rule, violatedRuleNames) ==
  IF rule.name \in Range(violatedRuleNames)
  THEN ActOutcome(rule.name, "fail", SeverityText[rule.severity], "violates")
  ELSE ActOutcome(rule.name, "pass", SeverityText[rule.severity], "complies")

\* the return of a call that stopped before the document was saved
UploadError(ocrText, r, err) ==
  [done |-> TRUE, err |-> err, text |-> ocrText, via |-> r.via,
   violated |-> r.rules, results |-> <<>>, riskScore |-> 0, doc |-> 0,
   items |-> <<>>, calls |-> upload.calls + 1]

\* the limiters after the call: the remote-call gate, then the ruleRateLimiter
\* as the last of its callers left it
UploadLimiters(groq, rule) ==
  [rl EXCEPT !["groqRateLimiter"] = groq, !["ruleRateLimiter"] = rule]

\* s.UploadAndProcessDocument from the compliance analysis on (the file is
\* stored, read by OCR and indexed); of the store accesses, the one numbered
\* `fault` fails: the catalog read of the classification (1), the catalog read
\* of the upload (2), the Create of the document (3), the writes of
\* CreateActionItems (4, 5, ...)
UploadAndProcessDocument(ocrText, script, fault) ==
  /\ upload.calls < MaxUploads
  /\ Len(documentsTable) < MaxDocuments
  /\ LET g == Allow(rl["groqRateLimiter"], "groq_api_call", now)
         c == GetAllComplianceRules(rl["ruleRateLimiter"], fault = 1, now)
         classified == IF ~g.ok THEN OnGateDenied(ocrText)
                       ELSE AfterGate(ocrText, c, groqAPIKey, script)
         ruleRL == IF ~g.ok THEN rl["ruleRateLimiter"] ELSE c.rl
     IN  \E r \in classified :
           LET all == GetAllComplianceRules(ruleRL, fault = 2, now)
               results == [i \in 1..Len(all.rules) |->
                             ComplianceResult(all.rules[i], r.rules)]
               gs == Allow(all.rl, "risk_score_calculation", now)
               riskScore == IF gs.ok THEN RiskScore(results, all.rules) ELSE 0
               docID == Len(documentsTable) + 1
               parsed == UnmarshalResults(OutcomeArray(results))
               loop == CreateLoop(docID, parsed.results,
                                  IF fault >= 4 THEN fault - 3 ELSE 0, 0,
                                  actionItems, documentRuleResults, now)
           IN  IF r.panicked \/ r.err # ""
               THEN /\ rl' = UploadLimiters(g.rl, ruleRL)
                    /\ upload' = UploadError(ocrText, r,
                                             IF r.panicked THEN "panic" ELSE r.err)
                    /\ UNCHANGED storeVars
               ELSE IF all.err # ""
               THEN /\ rl' = UploadLimiters(g.rl, all.rl)
                    /\ upload' = UploadError(ocrText, r,
                                             "failed to fetch rules from database")
                    /\ UNCHANGED storeVars
               ELSE IF fault = 3
               THEN /\ rl' = UploadLimiters(g.rl, gs.rl)
                    /\ upload' = UploadError(ocrText, r, "failed to save to database")
                    /\ UNCHANGED storeVars
               ELSE /\ rl' = UploadLimiters(g.rl, gs.rl)
                    /\ documentsTable' =
                         Append(documentsTable,
                                NewDocument(docID, OutcomeArray(results), riskScore))
                    /\ actionItems' = loop.items
                    /\ documentRuleResults' = loop.ress
                    /\ upload' =
                         [done |-> TRUE,
                          err |-> IF loop.err # ""
                                  THEN "failed to create action items" ELSE "",
                          text |-> ocrText, via |-> r.via, violated |-> r.rules,
                          results |-> results, riskScore |-> riskScore,
                          doc |-> docID,
                          items |-> SubSeq(loop.items, Len(actionItems) + 1,
                                           Len(loop.items)),
                          calls |-> upload.calls + 1]
  /\ UNCHANGED <<now, callerVars, fb, groqAPIKey, rulesTable, cls, score,
                 chk, batch, created, upd, asg, listing>>

\* the limiters after n classification requests of the current window, each
\* of them admitted by the gate
LimitersAfter(n) ==
  [GlobalLimiters EXCEPT
     !["groqRateLimiter"].requestCount["groq_api_call"] = n,
     !["ruleRateLimiter"].requestCount["rule_retrieval"] = n]

UploadInit ==
  /\ now = 0
  /\ \E n \in {0, GroqLimit} : rl = LimitersAfter(n)
  /\ NoCallers
  /\ fb = NoFallbackCall
  /\ groqAPIKey = "gsk"
  /\ rulesTable \in UploadCatalogs
  /\ cls = NoClassifyCall
  /\ score = NoScoreCall
  /\ SvcIdle

\* what the remote service does during an upload
UploadScripts ==
  {[i \in 1..maxRetries |-> f] : f \in FinalResponses}
  \cup {NoScript, <<TransportError, Response(429, NoBody), Response(500, NoBody)>>}

\* the store accesses of an upload that may fail
UploadFaults == 0..5

UploadNext ==
  \E ocrText \in UploadTexts, script \in UploadScripts, fault \in UploadFaults :
    UploadAndProcessDocument(ocrText, script, fault)

SpecUpload == UploadInit /\ [][UploadNext]_vars

\* the text holds "non-disclosure agreement", in whatever case
HoldsNDAPhrase(text) == Contains(ToLower(text), <<"n", "o", "n", "-", "d", "i", "s", "c", "l", "o", "s", "u", "r", "e", " ", "a", "g", "r", "e", "e", "m", "e", "n", "t">>)

ClaimedWait(n) == IF n <= 1 THEN 0 ELSE IF n = 2 THEN 10 ELSE 30

C29_TransientFailuresRetried ==
  /\ (cls.done /\ cls.final = "non_200") => cls.remoteCalls = maxRetries
  /\ (chk.done /\ chk.final = "non_200") => chk.remoteCalls = maxRetries

\* C30: a 200 response whose body cannot be parsed, has no choices entry, or
\* has a content that is not JSON or holds no violated_rules array ends the
\* attempts and makes DetermineApplicableRules return the fallback's output
\* for the text, with no error.
C30_MalformedResponseFallsBack ==
  (/\ cls.done
   /\ cls.final \in {"not_json", "no_choices", "content_not_json", "no_array"})
    => /\ cls.err = ""
       /\ ~cls.panicked
       /\ Range(cls.rules) = fallbackViolated(cls.text)
       /\ cls.attempts[cls.remoteCalls] = "response"

\* ------------------------------------------------------------------------
\* Classification next to GET /rules: the rule-table read gate
\* ------------------------------------------------------------------------
RuleReads == rl["ruleRateLimiter"].requestCount["rule_retrieval"]

\* the limiters after n GET /rules requests of the current window
LimitersAfterReads(n) ==
  [GlobalLimiters EXCEPT !["ruleRateLimiter"].requestCount["rule_retrieval"] = n]

\* DocumentController.GetAllComplianceRules: GET /rules reads the table
\* through the same gate
ListComplianceRules(dbErr) ==
  /\ rl' = [rl EXCEPT !["ruleRateLimiter"] =
                         GetAllComplianceRules(rl["ruleRateLimiter"], dbErr, now).rl]
  /\ UNCHANGED <<now, callerVars, appVars>>

RetrievalInit ==
  /\ now = 0
  /\ rl = LimitersAfterReads(RuleLimit - 2)
  /\ NoCallers
  /\ fb = NoFallbackCall
  /\ groqAPIKey = "gsk"
  /\ rulesTable \in ClsCatalogs
  /\ cls = NoClassifyCall
  /\ score = NoScoreCall
  /\ SvcIdle

RetrievalNext ==
  /\ RuleReads < RuleLimit + MaxDenied + 1
  /\ \/ ClassifyNext
     \/ \E dbErr \in BOOLEAN : ListComplianceRules(dbErr)

SpecRetrieval == RetrievalInit /\ [][RetrievalNext]_vars

\* the last call passed the remote-call gate and was refused by the gate on
\* rule_retrieval: it made no catalog read
RetrievalDenied == cls.done /\ ~GateDenied /\ cls.catalogReads = 0

\* C31: a call of DetermineApplicableRules that one of its gates refuses, the
\* remote-call gate or the rule_retrieval gate of GetAllComplianceRules,
\* returns a classification result and no error.
C31_GateDenialNeverFatal ==
  (GateDenied \/ RetrievalDenied) => cls.err = "" /\ ~cls.panicked

\* ------------------------------------------------------------------------
\* RateLimiter: two keys of one instance
\* ------------------------------------------------------------------------
\* the clock of the comparison stops after this many minutes
MaxTwinTime == 4

\* two keys of ruleRateLimiter: the one whose results are compared, and another
WatchedKey == "risk_score_calculation"
TwinKeys == {WatchedKey, "rule_retrieval"}

\* NewRateLimiter(limit, window), taken twice: `all` receives every call of
\* the behaviour, `only` receives the calls made with WatchedKey, at the same
\* times
TwinNew(limit) ==
  /\ ~twin.built
  /\ twin' = [built |-> TRUE,
              all |-> NewRateLimiter(limit, WindowMinutes, now),
              only |-> NewRateLimiter(limit, WindowMinutes, now),
              asked |-> FALSE, retAll |-> TRUE, retOnly |-> TRUE]
  /\ UNCHANGED <<now, rl, pc, frame, hist, appVars>>

\* rl.Allow(key) at the current time
TwinAllow(key) ==
  /\ twin.built
  /\ twin.all.requestCount[key] <= twin.all.limit
  /\ twin.only.requestCount[key] <= twin.only.limit
  /\ LET a == Allow(twin.all, key, now)
         o == Allow(twin.only, key, now)
     IN  twin' = IF key = WatchedKey
                 THEN [twin EXCEPT !.all = a.rl, !.only = o.rl, !.asked = TRUE,
                                   !.retAll = a.ok, !.retOnly = o.ok]
                 ELSE [twin EXCEPT !.all = a.rl]
  /\ UNCHANGED <<now, rl, pc, frame, hist, appVars>>

\* a minute passes
TwinTick ==
  /\ now < MaxTwinTime
  /\ now' = now + 1
  /\ UNCHANGED <<rl, callerVars, appVars>>

TwinInit ==
  /\ now = 0
  /\ rl = GlobalLimiters
  /\ NoCallers
  /\ fb = NoFallbackCall
  /\ groqAPIKey = ""
  /\ rulesTable = <<>>
  /\ cls = NoClassifyCall
  /\ score = NoScoreCall
  /\ SvcIdle

TwinNext ==
  \/ \E limit \in 1..MaxLimit : TwinNew(limit)
  \/ \E key \in TwinKeys : TwinAllow(key)
  \/ TwinTick

SpecTwin == TwinInit /\ [][TwinNext]_vars

\* C32: the result of Allow(k) depends only on the calls made with key k on
\* that instance and on their times: the calls with WatchedKey get the same
\* results whether or not calls with another key are made in between.
C32_BudgetsIndependent ==
  (twin.built /\ twin.asked) => twin.retAll = twin.retOnly

\* ------------------------------------------------------------------------
\* DetermineApplicableRulesBatch: failed chunks and batch sizes
\* ------------------------------------------------------------------------
\* the entry the loop stores for entry a of a chunk's response
StoredEntry(a) ==
  CHOOSE e \in MergeResults({}, {a}, BatchRuleNames(rulesTable)) : TRUE

\* the entries chunk k of the last call produced
EntriesOfChunk(k) ==
  IF batch.chunks[k].failed THEN {}
  ELSE {StoredEntry(a) : a \in batch.chunks[k].Results}

\* C33: when the remote call of a chunk fails, DetermineApplicableRulesBatch
\* returns no error, a request is still sent for every later chunk, every
\* entry produced by a successful chunk is in the returned map as produced,
\* and the map holds nothing else.
C33_FailedChunkSkipped ==
  (batch.done /\ \E k \in DOMAIN batch.chunks : batch.chunks[k].failed) =>
    /\ batch.err = "" /\ ~batch.panicked /\ ~batch.hung
    /\ Len(batch.chunks) = CeilDiv(Len(batch.documents), batch.batchSize)
    /\ \A k \in DOMAIN batch.chunks : batch.chunks[k].calls >= 1
    /\ \A k \in DOMAIN batch.chunks : EntriesOfChunk(k) \subseteq batch.results
    /\ batch.results \subseteq UNION {EntriesOfChunk(k) : k \in DOMAIN batch.chunks}

\* C34: for a non-empty document sequence DetermineApplicableRulesBatch
\* terminates whatever the batch size: it neither loops for ever nor crashes,
\* and a batch size below 1 is rejected with an error before a chunk is
\* formed or a request is sent.
C34_BatchSizeValidated ==
  (batch.done /\ Len(batch.documents) >= 1) =>
    /\ ~batch.hung /\ ~batch.panicked
    /\ batch.batchSize < 1 => (batch.err # "" /\ batch.chunks = <<>>)

\* ------------------------------------------------------------------------
\* CreateActionItems: failed writes and unknown rules
\* ------------------------------------------------------------------------
\* the outcomes of the document of the last CreateActionItems call that are
\* fail and name a catalog rule, in the order of the list
FailedOutcomes == SelectSeq(ClassifiedOutcomes(created.doc), Qualifies)

\* the last call stopped before a failing outcome and left as many results as
\* items: the Create of the ActionItem of that outcome failed
ItemCreateFailed ==
  /\ created.done
  /\ documentsTable[created.doc].classified.kind = "array"
  /\ Len(created.items) = Len(created.results)
  /\ Len(created.items) < Len(FailedOutcomes)

\* C35: a CreateActionItems call in which the creation of an ActionItem fails
\* returns that error, having created rows only for the failing outcomes
\* before that one: no DocumentRuleResult for it and no row for a later
\* outcome; and in every state each DocumentRuleResult has an ActionItem with
\* its (document, rule) pair.
C35_NoOrphanResult ==
  /\ \A r \in DOMAIN documentRuleResults :
       ItemsOfPair(documentRuleResults[r].DocumentID,
                   documentRuleResults[r].RuleID) # {}
  /\ ItemCreateFailed =>
       /\ created.err = "create action item"
       /\ \A k \in DOMAIN created.items :
            /\ created.items[k].DocumentID = created.doc
            /\ rulesTable[created.items[k].RuleID].name = FailedOutcomes[k].rule_name
            /\ created.results[k].DocumentID = created.doc
            /\ created.results[k].RuleID = created.items[k].RuleID
            /\ created.results[k].Details = FailedOutcomes[k]

\* the creation of the second ActionItem of a document failed: the rows of the
\* first outcome exist, the second outcome has none
C35_Witness ==
  /\ ItemCreateFailed
  /\ Len(created.items) = 1
  /\ Len(documentRuleResults) = 1
  /\ Len(actionItems) = 1

\* the positions of the outcomes of the last call's document that are fail
\* and name a rule that is not in the catalog
UnknownFailed ==
  {k \in DOMAIN ClassifiedOutcomes(created.doc) :
     /\ ClassifiedOutcomes(created.doc)[k].status = "fail"
     /\ ClassifiedOutcomes(created.doc)[k].rule_name \notin CatalogNames \cup {Absent}}

\* C36: a failing outcome whose rule name matches no catalog rule gets
\* neither an ActionItem nor a DocumentRuleResult and is no error: a call in
\* which no write fails returns nil and has created the rows of every other
\* failing outcome whose rule is in the catalog, those after it included.
C36_UnknownRuleStaysAtNoAction ==
  (created.done /\ UnknownFailed # {}) =>
    /\ \A k \in UnknownFailed :
         LET o == ClassifiedOutcomes(created.doc)[k]
         IN  /\ \A i \in DOMAIN created.items :
                  created.items[i].Description[2] # o.rule_name
             /\ \A i \in DOMAIN created.results :
                  created.results[i].Details.rule_name # o.rule_name
    /\ \A i \in DOMAIN created.items : created.items[i].RuleID \in DOMAIN rulesTable
    /\ created.fault = 0 =>
         /\ created.err = ""
         /\ Len(created.items) = Len(FailedOutcomes)
         /\ Len(created.results) = Len(FailedOutcomes)
         /\ \A k \in DOMAIN FailedOutcomes :
              created.results[k].Details = FailedOutcomes[k]

\* a call passed over a failing outcome of an unknown rule and created the
\* rows of the outcome after it
C36_Witness ==
  /\ created.done /\ created.err = "" /\ created.fault = 0
  /\ \E k \in UnknownFailed :
       \E j \in DOMAIN ClassifiedOutcomes(created.doc) :
         /\ j > k
         /\ \E i \in DOMAIN created.results :
              created.results[i].Details = ClassifiedOutcomes(created.doc)[j]

\* ------------------------------------------------------------------------
\* UpdateActionItem: what a completion leaves alone
\* ------------------------------------------------------------------------
\* the last UpdateActionItem request returned nil
UpdSucceeded == upd.pc = "done" /\ upd.err = "" /\ upd.failedAt = 0

\* C37: after an UpdateActionItem call that returned nil, the parsed_data of
\* the item's document still holds the outcome list the document was saved
\* with, and the status flag is set.
C37_OutcomeListKept ==
  (UpdSucceeded /\ documentsTable[upd.action.DocumentID].classified.kind = "array") =>
    LET doc == documentsTable[upd.action.DocumentID]
    IN  /\ doc.ParsedData.outcomes = doc.classified.outcomes
        /\ doc.ParsedData.status = "true"

\* ------------------------------------------------------------------------
\* UploadAndProcessDocument: the catalog check on the names returned
\* ------------------------------------------------------------------------
\* the last upload saved its document
UploadSaved == upload.done /\ upload.doc # 0

\* C38: the outcome list an upload stores holds one outcome per catalog rule,
\* in catalog order, fail if and only if the rule's name is among the names
\* the classification returned; a returned name that is not in the catalog,
\* as the fallback may give, is in no outcome, ActionItem or
\* DocumentRuleResult and adds nothing to the risk score.
C38_CatalogCheckAtIngestion ==
  UploadSaved =>
    /\ documentsTable[upload.doc].ParsedData = OutcomeArray(upload.results)
    /\ Len(upload.results) = Len(rulesTable)
    /\ \A i \in DOMAIN rulesTable :
         /\ upload.results[i].rule_name = rulesTable[i].name
         /\ upload.results[i].status \in {"pass", "fail"}
         /\ upload.results[i].status = "fail"
              <=> rulesTable[i].name \in Range(upload.violated)
    /\ \A i \in DOMAIN upload.items :
         /\ upload.items[i].RuleID \in DOMAIN rulesTable
         /\ rulesTable[upload.items[i].RuleID].name \in Range(upload.violated)
    /\ \A r \in DOMAIN documentRuleResults :
         documentRuleResults[r].DocumentID = upload.doc =>
           /\ documentRuleResults[r].RuleID \in DOMAIN rulesTable
           /\ documentRuleResults[r].Details.rule_name
                = rulesTable[documentRuleResults[r].RuleID].name
           /\ documentRuleResults[r].Details.rule_name \in Range(upload.violated)
    /\ upload.riskScore = ClaimedSum(upload.results, rulesTable)
    /\ documentsTable[upload.doc].RiskScore = upload.riskScore

\* the fallback returned a name that is not in the catalog, next to one that
\* is, and the document was saved with its action item
C38_Witness ==
  /\ UploadSaved
  /\ upload.err = ""
  /\ upload.via = "fallback"
  /\ Range(upload.violated) \cap CatalogNames # {}
  /\ Range(upload.violated) \ CatalogNames # {}
  /\ upload.items # <<>>
  /\ upload.riskScore = 3

\* documents with two failing rules are processed; their action items are
\* assigned without failure and completed, one request at a time
FrameNext ==
  \/ \E parsedData \in ListingParsedData : CreateActionItems(parsedData, 0)
  \/ asg.pc \in {"idle", "done"} /\ UpdNext
  \/ /\ upd.pc \in {"idle", "done"}
     /\ \/ \E actionID \in DOMAIN actionItems :
             AssignAndNotifyActionItem(actionID, "a@example.com")
        \/ AsgFetchAction(FALSE)
        \/ AsgUpdateAction(FALSE)
        \/ AsgSendMail(FALSE)

SpecFrame == ActionsInit /\ [][FrameNext]_vars

\* the columns of an ActionItem a completion does not write
KeptColumns(item) ==
  [DocumentID |-> item.DocumentID, RuleID |-> item.RuleID,
   Description |-> item.Description, Priority |-> item.Priority,
   AssignedTo |-> item.AssignedTo, DueDate |-> item.DueDate,
   CreatedAt |-> item.CreatedAt]

====
